---------------------------- MODULE Spec2Model ----------------------------
(***************************************************************************)
(* A model of pubmed_pharma_papers: the Record Model (models.py), the      *)
(* affiliation classifier and the Filter/Aggregator (paper_filter.py) and  *)
(* the Retrieval Client (pubmed_client.py).                                *)
(*                                                                         *)
(* Text is modelled as a sequence of one-character strings, so that        *)
(* str.lower() and the substring test `kw in s` are computed character by  *)
(* character.  An Optional[...] value is None (the empty tuple) or         *)
(* Some(v) (the one-element tuple holding v).                              *)
(***************************************************************************)
EXTENDS Integers, Sequences, FiniteSets, TLC

(***************************************************************************)
(* Text                                                                    *)
(***************************************************************************)
None == << >>

Some(v) == <<v>>

\* Python truthiness of an Optional[str]: neither None nor "".
Truthy(opt) == opt # None /\ opt[1] # << >>

\* The items of a list.
Range(seq) == { seq[i] : i \in DOMAIN seq }

\* Upper-case letters and their lower-case forms (str.lower on ASCII text).
UpperToLower ==
  [ A |-> "a", B |-> "b", C |-> "c", D |-> "d", E |-> "e", F |-> "f", G |-> "g", H |-> "h", I |-> "i",
    J |-> "j", K |-> "k", L |-> "l", M |-> "m", N |-> "n", O |-> "o", P |-> "p", Q |-> "q", R |-> "r",
    S |-> "s", T |-> "t", U |-> "u", V |-> "v", W |-> "w", X |-> "x", Y |-> "y", Z |-> "z" ]

\* "Pfizer"
f_Pfizer == <<"P","f","i","z","e","r">>
\* "Genentech"
f_Genentech == <<"G","e","n","e","n","t","e","c","h">>
\* " Inc."
f_Inc == <<" ","I","n","c",".">>
\* "University of Test"
f_University == <<"U","n","i","v","e","r","s","i","t","y"," ","o","f"," ","T","e","s","t">>
\* "Division of Oncology"
f_Division == <<"D","i","v","i","s","i","o","n"," ","o","f"," ","O","n","c","o","l","o","g","y">>
\* "Memorial Sloan Kettering Cancer Center"
f_Memorial == <<"M","e","m","o","r","i","a","l"," ","S","l","o","a","n"," ","K","e","t","t","e","r","i","n","g"," ","C","a","n","c","e","r"," ","C","e","n","t","e","r">>
\* "Novartis Pharmaceuticals"
f_Novartis == <<"N","o","v","a","r","t","i","s"," ","P","h","a","r","m","a","c","e","u","t","i","c","a","l","s">>
\* "XYZ Bio"
f_Bio == <<"X","Y","Z"," ","B","i","o">>
\* "tech"
f_tech == <<"t","e","c","h">>
\* "United Labs"
f_United == <<"U","n","i","t","e","d"," ","L","a","b","s">>
\* "Agilent"
f_Agilent == <<"A","g","i","l","e","n","t">>

Fragments ==
  { f_Pfizer, f_Genentech, f_Inc, f_University, f_Division,
    f_Memorial, f_Novartis, f_Bio, f_tech, f_United }

\* models.py: the academic keyword list local to Paper._is_non_academic_author.
Paper_academic_keywords ==
  << <<"u","n","i","v","e","r","s","i","t","y">>,
     <<"c","o","l","l","e","g","e">>,
     <<"s","c","h","o","o","l">>,
     <<"i","n","s","t","i","t","u","t","e">>,
     <<"a","c","a","d","e","m","y">>,
     <<"r","e","s","e","a","r","c","h"," ","c","e","n","t","e","r">>,
     <<"m","e","d","i","c","a","l"," ","c","e","n","t","e","r">>,
     <<"h","o","s","p","i","t","a","l">>,
     <<"c","l","i","n","i","c">>,
     <<"l","a","b","o","r","a","t","o","r","y">>,
     <<"d","e","p","t">>,
     <<"d","e","p","a","r","t","m","e","n","t">>,
     <<"f","a","c","u","l","t","y">>,
     <<"c","a","m","p","u","s">> >>

\* models.py: the company keyword list local to Paper._is_non_academic_author.
Paper_company_keywords ==
  << <<"p","h","a","r","m","a","c","e","u","t","i","c","a","l">>,
     <<"p","h","a","r","m","a">>,
     <<"b","i","o","t","e","c","h">>,
     <<"b","i","o","t","e","c","h","n","o","l","o","g","y">>,
     <<"t","h","e","r","a","p","e","u","t","i","c","s">>,
     <<"b","i","o","p","h","a","r","m","a","c","e","u","t","i","c","a","l">>,
     <<"i","n","c">>,
     <<"i","n","c",".">>,
     <<"l","t","d">>,
     <<"l","t","d",".">>,
     <<"c","o","r","p">>,
     <<"c","o","r","p",".">>,
     <<"c","o","r","p","o","r","a","t","i","o","n">>,
     <<"c","o","m","p","a","n","y">>,
     <<"c","o">>,
     <<"c","o",".">>,
     <<"a","g">>,
     <<"g","m","b","h">>,
     <<"l","l","c">>,
     <<"p","l","c">> >>

\* paper_filter.py: PaperFilter.pharma_keywords.
pharma_keywords ==
  << <<"p","h","a","r","m","a","c","e","u","t","i","c","a","l">>,
     <<"p","h","a","r","m","a">>,
     <<"b","i","o","t","e","c","h">>,
     <<"b","i","o","t","e","c","h","n","o","l","o","g","y">>,
     <<"t","h","e","r","a","p","e","u","t","i","c","s">>,
     <<"b","i","o","p","h","a","r","m","a","c","e","u","t","i","c","a","l">>,
     <<"b","i","o","p","h","a","r","m","a">>,
     <<"m","e","d","i","c","i","n","e","s">>,
     <<"d","r","u","g">>,
     <<"d","r","u","g","s">>,
     <<"b","i","o","l","o","g","i","c","s">> >>

\* paper_filter.py: PaperFilter.company_keywords.
company_keywords ==
  << <<"i","n","c">>,
     <<"i","n","c",".">>,
     <<"i","n","c","o","r","p","o","r","a","t","e","d">>,
     <<"l","t","d">>,
     <<"l","t","d",".">>,
     <<"l","i","m","i","t","e","d">>,
     <<"c","o","r","p">>,
     <<"c","o","r","p",".">>,
     <<"c","o","r","p","o","r","a","t","i","o","n">>,
     <<"c","o","m","p","a","n","y">>,
     <<"c","o">>,
     <<"c","o",".">>,
     <<"a","g">>,
     <<"g","m","b","h">>,
     <<"l","l","c">>,
     <<"p","l","c">>,
     <<"s","a">>,
     <<"n","v">>,
     <<"b","v">>,
     <<"g","r","o","u","p">>,
     <<"h","o","l","d","i","n","g","s">>,
     <<"e","n","t","e","r","p","r","i","s","e","s">> >>

\* paper_filter.py: PaperFilter.academic_keywords.
academic_keywords ==
  << <<"u","n","i","v","e","r","s","i","t","y">>,
     <<"c","o","l","l","e","g","e">>,
     <<"s","c","h","o","o","l">>,
     <<"i","n","s","t","i","t","u","t","e">>,
     <<"a","c","a","d","e","m","y">>,
     <<"r","e","s","e","a","r","c","h"," ","c","e","n","t","e","r">>,
     <<"m","e","d","i","c","a","l"," ","c","e","n","t","e","r">>,
     <<"h","o","s","p","i","t","a","l">>,
     <<"c","l","i","n","i","c">>,
     <<"l","a","b","o","r","a","t","o","r","y">>,
     <<"d","e","p","t">>,
     <<"d","e","p","a","r","t","m","e","n","t">>,
     <<"f","a","c","u","l","t","y">>,
     <<"c","a","m","p","u","s">>,
     <<"d","i","v","i","s","i","o","n">>,
     <<"s","e","c","t","i","o","n">>,
     <<"u","n","i","t">>,
     <<"c","e","n","t","e","r"," ","f","o","r">>,
     <<"c","e","n","t","r","e"," ","f","o","r">> >>

\* paper_filter.py: PaperFilter.known_companies.
known_companies ==
  << <<"p","f","i","z","e","r">>,
     <<"n","o","v","a","r","t","i","s">>,
     <<"r","o","c","h","e">>,
     <<"j","o","h","n","s","o","n"," ","&"," ","j","o","h","n","s","o","n">>,
     <<"m","e","r","c","k">>,
     <<"g","l","a","x","o","s","m","i","t","h","k","l","i","n","e">>,
     <<"g","s","k">>,
     <<"s","a","n","o","f","i">>,
     <<"a","b","b","v","i","e">>,
     <<"b","r","i","s","t","o","l"," ","m","y","e","r","s"," ","s","q","u","i","b","b">>,
     <<"a","s","t","r","a","z","e","n","e","c","a">>,
     <<"e","l","i"," ","l","i","l","l","y">>,
     <<"b","o","e","h","r","i","n","g","e","r"," ","i","n","g","e","l","h","e","i","m">>,
     <<"b","a","y","e","r">>,
     <<"t","a","k","e","d","a">>,
     <<"g","i","l","e","a","d">>,
     <<"b","i","o","g","e","n">>,
     <<"r","e","g","e","n","e","r","o","n">>,
     <<"v","e","r","t","e","x">>,
     <<"m","o","d","e","r","n","a">>,
     <<"b","i","o","n","t","e","c","h">>,
     <<"a","m","g","e","n">>,
     <<"g","e","n","e","n","t","e","c","h">>,
     <<"c","e","l","g","e","n","e">>,
     <<"i","l","l","u","m","i","n","a">>,
     <<"d","a","n","a","h","e","r">>,
     <<"t","h","e","r","m","o"," ","f","i","s","h","e","r">>,
     <<"a","g","i","l","e","n","t">>,
     <<"w","a","t","e","r","s">>,
     <<"p","e","r","k","i","n","e","l","m","e","r">> >>

\* str.lower(), character by character.
lower(s) ==
  [i \in 1..Len(s) |-> IF s[i] \in DOMAIN UpperToLower THEN UpperToLower[s[i]] ELSE s[i]]

\* Python `kw in s` on strings: kw occurs in s at some offset.
SubstringIn(kw, s) ==
  \E i \in 0..(Len(s) - Len(kw)) : \A j \in 1..Len(kw) : s[i + j] = kw[j]

\* `for keyword in keywords: if keyword in s: return True` (from index k on);
\* also `any(keyword in s for keyword in keywords)`.
RECURSIVE ScanKeywords(_, _, _)
ScanKeywords(keywords, s, k) ==
  IF k > Len(keywords) THEN FALSE
  ELSE IF SubstringIn(keywords[k], s) THEN TRUE
  ELSE ScanKeywords(keywords, s, k + 1)

(***************************************************************************)
(* Record Model (models.py)                                                *)
(***************************************************************************)
\* Author(name, affiliation, email, is_corresponding)
Author(name, affiliation, email, is_corresponding) ==
  [name |-> name, affiliation |-> affiliation, email |-> email,
   is_corresponding |-> is_corresponding]

\* Paper(pubmed_id, title, authors); the other fields keep their defaults.
PaperOf(pubmed_id, title, authors) ==
  [pubmed_id |-> pubmed_id, title |-> title, publication_date |-> None,
   authors |-> authors, abstract |-> None, journal |-> None]

\* "Academic Author" of "University of Test"
AcademicCoauthor == Author(<<"A","c">>, Some(f_University), None, FALSE)

\* Paper._is_non_academic_author without its company-keyword loop: every
\* affiliation free of academic keywords counts as non-academic.
is_non_academic_author_without_company_loop(author) ==
  IF ~Truthy(author.affiliation) THEN FALSE
  ELSE ~ScanKeywords(Paper_academic_keywords, lower(author.affiliation[1]), 1)

\* Paper._is_non_academic_author
is_non_academic_author(author) ==
  IF ~Truthy(author.affiliation) THEN FALSE
  ELSE LET affiliation_lower == lower(author.affiliation[1])
       IN  IF ScanKeywords(Paper_academic_keywords, affiliation_lower, 1) THEN FALSE
           ELSE IF ScanKeywords(Paper_company_keywords, affiliation_lower, 1) THEN TRUE
           ELSE FALSE

\* Paper.get_non_academic_authors
get_non_academic_authors(self) ==
  SelectSeq(self.authors, is_non_academic_author)

\* The loop returning the email of the first author flagged corresponding,
\* whatever that email is.
RECURSIVE FirstFlaggedEmail(_, _)
FirstFlaggedEmail(authors, i) ==
  IF i > Len(authors) THEN None
  ELSE IF authors[i].is_corresponding THEN authors[i].email
  ELSE FirstFlaggedEmail(authors, i + 1)

\* Paper.get_corresponding_author_email: the first author, in author order,
\* that is flagged corresponding and has a non-empty email.
RECURSIVE FirstCorrespondingEmail(_, _)
FirstCorrespondingEmail(authors, i) ==
  IF i > Len(authors) THEN None
  ELSE IF authors[i].is_corresponding /\ Truthy(authors[i].email) THEN authors[i].email
  ELSE FirstCorrespondingEmail(authors, i + 1)

get_corresponding_author_email(self) == FirstCorrespondingEmail(self.authors, 1)

(***************************************************************************)
(* Affiliation classifier (paper_filter.py)                                *)
(***************************************************************************)
\* _is_pharma_biotech_affiliation reading the Record Model's academic list
\* instead of the classifier's own.
is_pharma_biotech_affiliation_with_record_model_list(affiliation) ==
  IF ~Truthy(affiliation) THEN FALSE
  ELSE LET affiliation_lower == lower(affiliation[1])
       IN  \/ ScanKeywords(known_companies, affiliation_lower, 1)
           \/ ScanKeywords(pharma_keywords, affiliation_lower, 1)
           \/ /\ ScanKeywords(company_keywords, affiliation_lower, 1)
              /\ ~ScanKeywords(Paper_academic_keywords, affiliation_lower, 1)

\* PaperFilter._is_pharma_biotech_affiliation
is_pharma_biotech_affiliation(affiliation) ==
  IF ~Truthy(affiliation) THEN FALSE
  ELSE LET affiliation_lower == lower(affiliation[1])
           has_company_keyword == ScanKeywords(company_keywords, affiliation_lower, 1)
           has_academic_keyword == ScanKeywords(academic_keywords, affiliation_lower, 1)
       IN  IF ScanKeywords([k \in 1..Len(known_companies) |-> lower(known_companies[k])],
                           affiliation_lower, 1) THEN TRUE
           ELSE IF ScanKeywords(pharma_keywords, affiliation_lower, 1) THEN TRUE
           ELSE IF has_company_keyword /\ ~has_academic_keyword THEN TRUE
           ELSE FALSE


(***************************************************************************)
(* Filter/Aggregator (paper_filter.py)                                     *)
(*                                                                         *)
(* A list of papers is a sequence of references to Paper objects; Heap     *)
(* gives the object behind a reference, so that "the same object" and      *)
(* "an equal object" differ.                                               *)
(***************************************************************************)
\* "author@pfizer.com"
e_author == <<"a","u","t","h","o","r","@","p","f","i","z","e","r",".","c","o","m">>

AuthorAt(affiliation) == Author(<<"A">>, Some(affiliation), None, FALSE)

\* The objects: the fixtures of tests/test_paper_filter.py and papers for the
\* cases they leave out.
Heap ==
  << \* 1: academic_paper
     PaperOf(<<"1","1","1">>, <<"A">>, <<AuthorAt(f_University)>>),
     \* 2: pharma_paper, its author corresponding with an email
     PaperOf(<<"2","2","2">>, <<"P">>,
             <<Author(<<"P">>, Some(f_Pfizer \o f_Inc), Some(e_author), TRUE)>>),
     \* 3: mixed_paper
     PaperOf(<<"3","3","3">>, <<"M">>, <<AuthorAt(f_University), AuthorAt(f_Novartis)>>),
     \* 4: the only author at a known company, named alone
     PaperOf(<<"4">>, <<"K">>, <<AuthorAt(f_Genentech)>>),
     \* 5: a legal-entity affiliation with an academic keyword of the
     \*    classifier's list, and a corresponding author without affiliation
     PaperOf(<<"5">>, <<"U">>,
             <<AuthorAt(f_United \o f_Inc), Author(<<"C">>, None, Some(e_author), TRUE)>>),
     \* 6: no authors
     PaperOf(<<"6">>, <<"N">>, << >>),
     \* 7: two authors of one company, and a corresponding author without email
     PaperOf(<<"7">>, <<"D">>,
             <<AuthorAt(f_Pfizer \o f_Inc), AuthorAt(f_Pfizer \o f_Inc),
               Author(<<"X">>, Some(f_Novartis), None, TRUE)>>),
     \* 8: the only author at a known company whose name holds the letters "ag"
     PaperOf(<<"8">>, <<"G">>, <<AuthorAt(f_Agilent)>>) >>

Refs == DOMAIN Heap

\* PaperFilter._has_pharma_affiliation: the loop over the non-academic authors
RECURSIVE AnyPharmaAuthor(_, _)
AnyPharmaAuthor(non_academic_authors, i) ==
  IF i > Len(non_academic_authors) THEN FALSE
  ELSE IF /\ Truthy(non_academic_authors[i].affiliation)
          /\ is_pharma_biotech_affiliation(non_academic_authors[i].affiliation)
       THEN TRUE
  ELSE AnyPharmaAuthor(non_academic_authors, i + 1)

\* _has_pharma_affiliation asking the company test alone.
has_pharma_affiliation_of_any_author(paper) == AnyPharmaAuthor(paper.authors, 1)

\* PaperFilter._has_pharma_affiliation
has_pharma_affiliation(paper) ==
  LET non_academic_authors == get_non_academic_authors(paper)
  IN  IF non_academic_authors = << >> THEN FALSE
      ELSE AnyPharmaAuthor(non_academic_authors, 1)

\* The loop of filter_papers_with_pharma_affiliations, from paper i on.
RECURSIVE FilterLoop(_, _, _)
FilterLoop(papers, i, filtered_papers) ==
  IF i > Len(papers) THEN filtered_papers
  ELSE FilterLoop(papers, i + 1,
                  IF has_pharma_affiliation(Heap[papers[i]])
                  THEN Append(filtered_papers, papers[i])
                  ELSE filtered_papers)

\* The filter collecting the kept papers in a set before listing them.
RECURSIVE ListOf(_)
ListOf(set) ==
  IF set = {} THEN << >>
  ELSE LET r == CHOOSE x \in set : \A y \in set : x <= y
       IN  <<r>> \o ListOf(set \ {r})

filter_papers_through_a_set(papers) ==
  ListOf({ papers[i] : i \in { j \in DOMAIN papers : has_pharma_affiliation(Heap[papers[j]]) } })

\* PaperFilter.filter_papers_with_pharma_affiliations
filter_papers_with_pharma_affiliations(papers) == FilterLoop(papers, 1, << >>)

\* The affiliations that get_paper_statistics adds to unique_companies for
\* one paper.
AffiliationsOf(authors) ==
  { authors[i].affiliation[1] : i \in { j \in DOMAIN authors : Truthy(authors[j].affiliation) } }

\* The loop of get_paper_statistics over the Paper objects of the list, from
\* paper i on; acc holds its counters.
RECURSIVE StatisticsLoop(_, _, _)
StatisticsLoop(objects, i, acc) ==
  IF i > Len(objects) THEN acc
  ELSE LET paper_i == objects[i]
           non_academic_authors_i == get_non_academic_authors(paper_i)
           counted == non_academic_authors_i # << >>
       IN  StatisticsLoop(objects, i + 1,
             [unique_companies |->
                IF counted THEN acc.unique_companies \cup AffiliationsOf(non_academic_authors_i)
                ELSE acc.unique_companies,
              papers_with_pharma_affiliations |->
                acc.papers_with_pharma_affiliations + (IF counted THEN 1 ELSE 0),
              total_non_academic_authors |->
                acc.total_non_academic_authors
                  + (IF counted THEN Len(non_academic_authors_i) ELSE 0),
              papers_with_corresponding_mails |->
                acc.papers_with_corresponding_mails
                  + (IF Truthy(get_corresponding_author_email(paper_i)) THEN 1 ELSE 0)])

StatisticsOf(papers, acc) ==
  [total_papers |-> Len(papers),
   papers_with_pharma_affiliations |-> acc.papers_with_pharma_affiliations,
   unique_companies |-> Cardinality(acc.unique_companies),
   total_non_academic_authors |-> acc.total_non_academic_authors,
   papers_with_corresponding_mails |-> acc.papers_with_corresponding_mails]

ZeroCounters ==
  [unique_companies |-> {}, papers_with_pharma_affiliations |-> 0,
   total_non_academic_authors |-> 0, papers_with_corresponding_mails |-> 0]

\* get_paper_statistics counting the companies of each paper on their own.
RECURSIVE CompaniesPerPaper(_, _)
CompaniesPerPaper(papers, i) ==
  IF i > Len(papers) THEN 0
  ELSE Cardinality(AffiliationsOf(get_non_academic_authors(Heap[papers[i]])))
         + CompaniesPerPaper(papers, i + 1)

\* The Paper objects that a list of references names
Objects(papers) == [i \in DOMAIN papers |-> Heap[papers[i]]]

\* get_paper_statistics of a list given by its Paper objects
statistics_of_objects(objects) ==
  StatisticsOf(objects, StatisticsLoop(objects, 1, ZeroCounters))

get_paper_statistics_per_paper_companies(papers) ==
  [statistics_of_objects(Objects(papers))
     EXCEPT !.unique_companies = CompaniesPerPaper(papers, 1)]

\* PaperFilter.get_paper_statistics
get_paper_statistics(papers) == statistics_of_objects(Objects(papers))

(***************************************************************************)
(* Paper.get_company_affiliations (models.py)                              *)
(***************************************************************************)
\* The printable ASCII characters in the order of their code points, from
\* the blank (32) on; "grave" holds the place of the grave accent (96),
\* which no text of the model contains.
Printable ==
  << " ", "!", "\"", "#", "$", "%", "&", "'", "(", ")", "*", "+", ",", "-", ".", "/",
     "0", "1", "2", "3", "4", "5", "6", "7", "8", "9", ":", ";", "<", "=", ">", "?",
     "@", "A", "B", "C", "D", "E", "F", "G", "H", "I", "J", "K", "L", "M", "N", "O",
     "P", "Q", "R", "S", "T", "U", "V", "W", "X", "Y", "Z", "[", "\\", "]", "^", "_",
     "grave", "a", "b", "c", "d", "e", "f", "g", "h", "i", "j", "k", "l", "m", "n", "o",
     "p", "q", "r", "s", "t", "u", "v", "w", "x", "y", "z", "{", "|", "}", "~" >>

\* ord(c) of a printable ASCII character
ord(c) == (CHOOSE i \in DOMAIN Printable : Printable[i] = c) + 31

\* a < b of two str, decided from position i on: the first differing
\* character decides by its code point, and a proper prefix comes first.
RECURSIVE TextBefore(_, _, _)
TextBefore(a, b, i) ==
  IF i > Len(a) THEN i <= Len(b)
  ELSE IF i > Len(b) THEN FALSE
  ELSE IF a[i] = b[i] THEN TextBefore(a, b, i + 1)
  ELSE ord(a[i]) < ord(b[i])

\* sorted(...) of a set of str
RECURSIVE sorted(_)
SortedFrom(first, texts) == <<first>> \o sorted(texts \ {first})

sorted(texts) ==
  IF texts = {} THEN << >>
  ELSE SortedFrom(CHOOSE x \in texts : \A y \in texts \ {x} : TextBefore(x, y, 1), texts)

\* The set get_company_affiliations has built when its loop over the
\* non-academic authors ends.
AddedAffiliations(non_academic_authors) ==
  { non_academic_authors[i].affiliation[1] :
      i \in { j \in DOMAIN non_academic_authors : Truthy(non_academic_authors[j].affiliation) } }

\* get_company_affiliations listing the affiliation of each non-academic
\* author as it comes.
get_company_affiliations_in_author_order(self) ==
  LET non_academic_authors == get_non_academic_authors(self)
  IN  [ i \in 1..Len(non_academic_authors) |-> non_academic_authors[i].affiliation[1] ]

\* Paper.get_company_affiliations
get_company_affiliations(self) == sorted(AddedAffiliations(get_non_academic_authors(self)))

(***************************************************************************)
(* Retrieval Client (pubmed_client.py): the values it parses               *)
(*                                                                         *)
(* A parsed document is a tree of Python values: a str, a dict, a list or  *)
(* None.  An exception travelling up the call stack is the value           *)
(* Raise(name): every operation on it yields it again, until a try block   *)
(* that catches `name` is reached.                                         *)
(***************************************************************************)
Str(s) == [t |-> "str", s |-> s]

Dict(d) == [t |-> "dict", d |-> d]

List(l) == [t |-> "list", l |-> l]

Null == [t |-> "none"]

Raise(exc) == [t |-> "raise", exc |-> exc]

EmptyDict == Dict([k \in {} |-> Null])

EmptyStr == Str(<< >>)

IsRaise(x) == x.t = "raise"

\* Python truthiness of a parsed value: None, "", {} and [] are false.
IsTrue(x) ==
  CASE x.t = "none" -> FALSE
    [] x.t = "str" -> x.s # << >>
    [] x.t = "dict" -> DOMAIN x.d # {}
    [] x.t = "list" -> x.l # << >>

\* x.get(key, default): a dict answers, anything else has no attribute `get`.
Get(x, key, default) ==
  IF IsRaise(x) THEN x
  ELSE IF x.t # "dict" THEN Raise("AttributeError")
  ELSE IF key \in DOMAIN x.d THEN x.d[key]
  ELSE default

(***************************************************************************)
(* xmltodict.parse: an XML element is a record of its tag, its attributes  *)
(* (keyed "@name"), its stripped text and its child elements.  A leaf      *)
(* without attributes becomes its text, or None when it has none; any      *)
(* other element becomes a dict of its attributes, of "#text" when it has  *)
(* text, and of its children by tag, a tag occurring several times giving  *)
(* the list of those children in document order.                           *)
(***************************************************************************)
El(tag, attrs, text, kids) == [tag |-> tag, attrs |-> attrs, text |-> text, kids |-> kids]

NoAttrs == [k \in {} |-> << >>]

\* <tag>text</tag>
Leaf(tag, text) == El(tag, NoAttrs, text, << >>)

\* <tag> kids </tag>
Node(tag, kids) == El(tag, NoAttrs, << >>, kids)

\* The value of the children of one tag: the child's own value, or the list
\* of the values when the tag occurs several times.
RECURSIVE xmltodict_value(_)
ValueOfSame(same) ==
  IF Len(same) = 1 THEN xmltodict_value(same[1])
  ELSE List([i \in 1..Len(same) |-> xmltodict_value(same[i])])

DictOf(el, tags) ==
  Dict([k \in DOMAIN el.attrs \cup tags \cup (IF el.text = << >> THEN {} ELSE {"#text"}) |->
          IF k \in DOMAIN el.attrs THEN Str(el.attrs[k])
          ELSE IF k \in tags
               THEN ValueOfSame(SelectSeq(el.kids, LAMBDA kid : kid.tag = k))
          ELSE Str(el.text)])

xmltodict_value(el) ==
  IF el.kids = << >> /\ DOMAIN el.attrs = {}
  THEN IF el.text = << >> THEN Null ELSE Str(el.text)
  ELSE DictOf(el, { el.kids[i].tag : i \in DOMAIN el.kids })

\* xmltodict.parse(response.text), the document given by its root element
xmltodict_parse(root) ==
  Dict([k \in {root.tag} |-> xmltodict_value(root)])

(***************************************************************************)
(* Retrieval Client (pubmed_client.py): parsing                            *)
(*                                                                         *)
(* A function of the client returns Ok(v), or the exception it lets        *)
(* through as Raise(name).                                                 *)
(***************************************************************************)
Ok(v) == [t |-> "ok", v |-> v]

Digits == <<"0","1","2","3","4","5","6","7","8","9">>

DigitValue(c) == (CHOOSE i \in DOMAIN Digits : Digits[i] = c) - 1

RECURSIVE DecimalValue(_, _)
DecimalValue(s, k) ==
  IF k = 0 THEN 0 ELSE 10 * DecimalValue(s, k - 1) + DigitValue(s[k])

\* The largest value datetime.date takes for a field before it raises
\* OverflowError instead of ValueError (a C int).
MaxCInt == 2147483647

\* An int that no C int holds.
Beyond == [t |-> "beyond"]

RECURSIVE StripZeros(_)
StripZeros(digits) ==
  IF Len(digits) > 1 /\ digits[1] = "0" THEN StripZeros(Tail(digits)) ELSE digits

\* The digits, without leading zeros, of a number up to MaxCInt
FitsCInt(d) ==
  \/ Len(d) < 10
  \/ /\ Len(d) = 10
     /\ \/ DecimalValue(d, 9) < MaxCInt \div 10
        \/ DecimalValue(d, 9) = MaxCInt \div 10 /\ DigitValue(d[10]) <= MaxCInt % 10

ValueOf(negative, d) ==
  IF ~FitsCInt(d) THEN Beyond
  ELSE IF negative THEN Ok(0 - DecimalValue(d, Len(d)))
  ELSE Ok(DecimalValue(d, Len(d)))

\* int of a text with its sign taken off
IntOf(negative, digits) ==
  IF digits = << >> \/ \E i \in DOMAIN digits : digits[i] \notin Range(Digits)
  THEN Raise("ValueError")
  ELSE ValueOf(negative, StripZeros(digits))

\* int(x): a str of decimal digits, with or without a sign, converts; any
\* other str is a ValueError, anything that is no str a TypeError.  (Digits
\* grouped by underscores and blanks around the number, which int also
\* reads, are left out.)
int(x) ==
  IF x.t # "str" THEN Raise("TypeError")
  ELSE IF x.s # << >> /\ x.s[1] \in {"+", "-"} THEN IntOf(x.s[1] = "-", Tail(x.s))
  ELSE IntOf(FALSE, x.s)

IsLeap(year) == year % 4 = 0 /\ (year % 100 # 0 \/ year % 400 = 0)

DaysInMonth(year, month) ==
  IF month = 2 THEN (IF IsLeap(year) THEN 29 ELSE 28)
  ELSE IF month \in {4, 6, 9, 11} THEN 30 ELSE 31

\* datetime.date(year, month, day) of numbers that C ints hold
date(year, month, day) ==
  IF /\ year \in 1..9999
     /\ month \in 1..12
     /\ day \in 1..DaysInMonth(year, month)
  THEN Ok([year |-> year, month |-> month, day |-> day])
  ELSE Raise("ValueError")

\* _parse_publication_date: month_map
month_map ==
  << <<<<"J","a","n">>, <<"1">>>>, <<<<"F","e","b">>, <<"2">>>>, <<<<"M","a","r">>, <<"3">>>>, <<<<"A","p","r">>, <<"4">>>>,
     <<<<"M","a","y">>, <<"5">>>>, <<<<"J","u","n">>, <<"6">>>>, <<<<"J","u","l">>, <<"7">>>>, <<<<"A","u","g">>, <<"8">>>>,
     <<<<"S","e","p">>, <<"9">>>>, <<<<"O","c","t">>, <<"1","0">>>>, <<<<"N","o","v">>, <<"1","1">>>>, <<<<"D","e","c">>, <<"1","2">>>> >>

InMonthMap(s) == \E i \in DOMAIN month_map : month_map[i][1] = s

MonthMapAt(s) == month_map[CHOOSE i \in DOMAIN month_map : month_map[i][1] = s][2]

\* A month that is neither a key of month_map nor a number made "1".
MonthTextOrOne(month) ==
  IF month.t = "str" /\ InMonthMap(month.s) THEN Str(MonthMapAt(month.s))
  ELSE IF month.t = "str" /\ month.s # << >> /\ \A i \in DOMAIN month.s : month.s[i] \in Range(Digits)
  THEN month
  ELSE Str(<<"1">>)

\* month_map[month] when month is a key of it
MonthText(month) ==
  IF month.t = "str" /\ InMonthMap(month.s) THEN Str(MonthMapAt(month.s)) ELSE month

\* The except clause of _parse_publication_date: ValueError and TypeError
\* give None, any other exception passes through.
DateMade(made) ==
  IF made.t = "ok" THEN Ok(Some(made.v))
  ELSE IF made.exc \in {"ValueError", "TypeError"} THEN Ok(None)
  ELSE made

\* date(int(year), int(month), int(day)), an int that raises first
DateOfInts(year, month, day) ==
  IF IsRaise(year) THEN year
  ELSE IF IsRaise(month) THEN month
  ELSE IF IsRaise(day) THEN day
  ELSE IF Beyond \in {year, month, day} THEN Raise("OverflowError")
  ELSE date(year.v, month.v, day.v)

\* `month in month_map` raises TypeError for a dict or a list (unhashable);
\* without a year there is no date.
DateOfFields(year, month, day) ==
  IF month.t \in {"dict", "list"} THEN Ok(None)
  ELSE IF ~IsTrue(year) THEN Ok(None)
  ELSE DateMade(DateOfInts(int(year), int(MonthText(month)), int(day)))

DateOfPubDate(pub_date) ==
  IF IsRaise(pub_date) THEN pub_date
  ELSE IF pub_date.t # "dict" THEN Raise("AttributeError")
  ELSE DateOfFields(Get(pub_date, "Year", EmptyStr), Get(pub_date, "Month", Str(<<"1">>)),
                    Get(pub_date, "Day", Str(<<"1">>)))

\* PubMedClient._parse_publication_date.  Its try block catches ValueError
\* and TypeError only: what .get raises on a value that is no dict, and what
\* date raises on an oversized number, pass through.
parse_publication_date(journal_issue) ==
  DateOfPubDate(Get(journal_issue, "PubDate", EmptyDict))

\* sep.join(parts) that puts a blank wherever a separator belongs
RECURSIVE JoinWithBlanks(_, _)
JoinWithBlanks(parts, sep) ==
  IF parts = << >> THEN << >>
  ELSE IF Len(parts) = 1 THEN parts[1]
  ELSE parts[1] \o <<" ">> \o JoinWithBlanks(Tail(parts), sep)

\* sep.join(parts)
RECURSIVE JoinWith(_, _)
JoinWith(parts, sep) ==
  IF parts = << >> THEN << >>
  ELSE IF Len(parts) = 1 THEN parts[1]
  ELSE parts[1] \o sep \o JoinWith(Tail(parts), sep)

\* str(part) of a part of a list of abstract texts
StrOf(x) == IF x.t = "str" THEN x.s ELSE <<"N","o","n","e">>

\* part.get("#text", "") of a dict, str(part) of anything else
PartText(part) ==
  IF part.t = "dict" THEN StrOf(Get(part, "#text", EmptyStr)) ELSE StrOf(part)

\* The text of AbstractText: of a dict its "#text", of a list its parts
\* joined by blanks, anything else as it is.
AbstractTextOf(given) ==
  IF given.t = "dict" THEN Get(given, "#text", EmptyStr)
  ELSE IF given.t = "list"
       THEN Str(JoinWith([i \in DOMAIN given.l |-> PartText(given.l[i])], <<" ">>))
  ELSE given

\* abstract_text if abstract_text else None
AbstractOrNone(abstract_text) ==
  IF IsTrue(abstract_text) THEN Ok(Some(abstract_text.s)) ELSE Ok(None)

\* PubMedClient._parse_abstract
parse_abstract(abstract_data) ==
  IF IsRaise(abstract_data) THEN abstract_data
  ELSE IF ~IsTrue(abstract_data) THEN Ok(None)
  ELSE IF abstract_data.t # "dict" THEN Raise("AttributeError")
  ELSE AbstractOrNone(AbstractTextOf(Get(abstract_data, "AbstractText", EmptyStr)))
\* The character classes of email_pattern.
Letters ==
  DOMAIN UpperToLower \cup { UpperToLower[c] : c \in DOMAIN UpperToLower }

WordChars == Letters \cup Range(Digits) \cup {"_"}

LocalChars == WordChars \cup {".", "%", "+", "-"}

DomainChars == Letters \cup Range(Digits) \cup {".", "-"}

TldChars == Letters \cup {"|"}

\* \b between s[i] and s[i + 1]: exactly one of them is a word character.
WordBoundary(s, i) ==
  (i >= 1 /\ s[i] \in WordChars) # (i < Len(s) /\ s[i + 1] \in WordChars)

\* [A-Za-z0-9._%+-]+ from s[i] on: the place after the run
LocalEnd(s, i) ==
  CHOOSE n \in i..(Len(s) + 1) :
    /\ n = Len(s) + 1 \/ s[n] \notin LocalChars
    /\ \A j \in i..(n - 1) : s[j] \in LocalChars

\* [A-Za-z0-9.-]* after the "@" at s[p]: the last place of the run
DomainEnd(s, p) ==
  CHOOSE n \in p..Len(s) :
    /\ n = Len(s) \/ s[n + 1] \notin DomainChars
    /\ \A j \in (p + 1)..n : s[j] \in DomainChars

\* The pairs <<k, q>>: "." at s[k] after a domain of one character at least,
\* then [A-Z|a-z]{2,} up to s[q], where a word boundary follows.
TldEnds(s, p, e) ==
  { kq \in ((p + 2)..e) \X ((p + 4)..Len(s)) :
      /\ s[kq[1]] = "."
      /\ kq[2] >= kq[1] + 2
      /\ \A j \in (kq[1] + 1)..kq[2] : s[j] \in TldChars
      /\ WordBoundary(s, kq[2]) }

\* Greedy matching: the last "." that works, and after it the longest run.
LastOf(ends) ==
  IF ends = {} THEN 0
  ELSE (CHOOSE kq \in ends :
          \A other \in ends :
            other[1] < kq[1] \/ (other[1] = kq[1] /\ other[2] <= kq[2]))[2]

MatchAfterLocal(s, i, p) ==
  IF p = i \/ p > Len(s) THEN 0
  ELSE IF s[p] # "@" THEN 0
  ELSE LastOf(TldEnds(s, p, DomainEnd(s, p)))

\* Where the match of email_pattern that starts at s[i] ends, 0 when there
\* is none.
EmailMatchEnd(s, i) == MatchAfterLocal(s, i, LocalEnd(s, i))

\* The leftmost place of a set of places
Leftmost(starts) == CHOOSE i \in starts : \A j \in starts : i <= j

MatchFrom(affiliation, starts) ==
  IF starts = {} THEN None
  ELSE Some(SubSeq(affiliation, Leftmost(starts),
                   EmailMatchEnd(affiliation, Leftmost(starts))))

\* PubMedClient._extract_email_from_affiliation: the leftmost match, or None
extract_email_from_affiliation(affiliation) ==
  MatchFrom(affiliation,
            { i \in DOMAIN affiliation :
                WordBoundary(affiliation, i - 1) /\ EmailMatchEnd(affiliation, i) > 0 })

\* The validation testing the text as given, without strip().
IsEmpty(s) == s = << >>

\* str.strip() leaves nothing
IsBlank(s) == \A i \in DOMAIN s : s[i] \in {" ", "\t", "\n", "\r"}

\* Author(...) with Author.__post_init__: name.strip() needs a str, and the
\* stripped name must not be empty.
NewAuthor(name, affiliation, email, is_corresponding) ==
  IF name.t # "str" THEN Raise("AttributeError")
  ELSE IF IsBlank(name.s) THEN Raise("ValueError")
  ELSE Ok(Author(name.s, affiliation, email, is_corresponding))

\* f"{value}" of a parsed value
Format(x) ==
  CASE x.t = "str" -> x.s
    [] x.t = "none" -> <<"N","o","n","e">>
    [] x.t = "dict" -> <<"{",".",".",".","}">>
    [] x.t = "list" -> <<"[",".",".",".","]">>

\* The Optional[str] an Author keeps for a parsed affiliation.
AffiliationOf(x) == IF x.t = "str" THEN Some(x.s) ELSE None

\* The name of an author entry: "ForeName LastName", "Initials LastName",
\* the last name alone, or the collective name.
NameOf(last_name, first_name, initials, collective_name) ==
  IF IsTrue(last_name)
  THEN IF IsTrue(first_name)
       THEN Str(Format(first_name) \o <<" ">> \o Format(last_name))
       ELSE IF IsTrue(initials)
            THEN Str(Format(initials) \o <<" ">> \o Format(last_name))
       ELSE last_name
  ELSE collective_name

\* Of a list of AffiliationInfo its first entry, {} of an empty list.
FirstAffiliationInfo(affiliation_info) ==
  IF affiliation_info.t = "list"
  THEN (IF affiliation_info.l # << >> THEN affiliation_info.l[1] ELSE EmptyDict)
  ELSE affiliation_info

\* affiliation = affiliation_info.get("Affiliation", "") if affiliation_info,
\* else it stays None
AffiliationText(affiliation_info) ==
  IF IsTrue(affiliation_info) THEN Get(affiliation_info, "Affiliation", EmptyStr)
  ELSE Null

\* Ok(Some(author)) of an Author that was constructed
Appendable(made) == IF IsRaise(made) THEN made ELSE Ok(Some(made.v))

\* The entry of an author flagged corresponding when the affiliation holds
\* an e-mail address.
AuthorFromFlagged(name, affiliation) ==
  IF ~IsTrue(name) THEN Ok(None)
  ELSE IF IsRaise(affiliation) THEN affiliation
  ELSE IF ~IsTrue(affiliation)
       THEN Appendable(NewAuthor(name, AffiliationOf(affiliation), None, FALSE))
  ELSE IF affiliation.t # "str" THEN Raise("TypeError")
  ELSE Appendable(NewAuthor(name, AffiliationOf(affiliation),
                            extract_email_from_affiliation(affiliation.s),
                            extract_email_from_affiliation(affiliation.s) # None))

\* After the name: `continue` without one; the e-mail address is searched
\* in a non-empty affiliation, which re.findall needs to be a str.
AuthorFrom(name, affiliation) ==
  IF ~IsTrue(name) THEN Ok(None)
  ELSE IF IsRaise(affiliation) THEN affiliation
  ELSE IF ~IsTrue(affiliation)
       THEN Appendable(NewAuthor(name, AffiliationOf(affiliation), None, FALSE))
  ELSE IF affiliation.t # "str" THEN Raise("TypeError")
  ELSE Appendable(NewAuthor(name, AffiliationOf(affiliation),
                            extract_email_from_affiliation(affiliation.s), FALSE))

\* The body of the loop of _parse_authors for one entry: Ok(Some(author)),
\* Ok(None) after `continue`, or the exception the entry's try block catches.
parse_author(author_info) ==
  IF author_info.t # "dict" THEN Raise("AttributeError")
  ELSE AuthorFrom(NameOf(Get(author_info, "LastName", EmptyStr),
                         Get(author_info, "ForeName", EmptyStr),
                         Get(author_info, "Initials", EmptyStr),
                         Get(author_info, "CollectiveName", EmptyStr)),
                  AffiliationText(FirstAffiliationInfo(
                    Get(author_info, "AffiliationInfo", EmptyDict))))

\* authors.append(author), unless the entry raised or was passed over
AppendAuthor(authors, parsed) ==
  IF parsed.t = "ok" /\ parsed.v # None THEN Append(authors, parsed.v[1]) ELSE authors

\* The loop of _parse_authors from entry i on: an entry that raises is
\* logged and skipped.
RECURSIVE AuthorsLoop(_, _, _)
AuthorsLoop(author_data, i, authors) ==
  IF i > Len(author_data) THEN authors
  ELSE AuthorsLoop(author_data, i + 1, AppendAuthor(authors, parse_author(author_data[i])))

\* What `for x in value` iterates over: a list's items, a str's characters;
\* a dict was wrapped into a list before.
ItemsOf(x) ==
  IF x.t = "list" THEN x.l
  ELSE IF x.t = "dict" THEN <<x>>
  ELSE [i \in DOMAIN x.s |-> Str(<<x.s[i]>>)]

AuthorsOf(author_data) ==
  IF author_data.t = "none" THEN Raise("TypeError")
  ELSE Ok(AuthorsLoop(ItemsOf(author_data), 1, << >>))

\* PubMedClient._parse_authors
parse_authors(author_list) ==
  IF IsRaise(author_list) THEN author_list
  ELSE IF ~IsTrue(author_list) THEN Ok(<< >>)
  ELSE IF author_list.t # "dict" THEN Raise("AttributeError")
  ELSE AuthorsOf(Get(author_list, "Author", List(<< >>)))

\* Paper(...) with Paper.__post_init__: pubmed_id.strip() and title.strip()
\* need strs, and neither stripped text may be empty.
NewPaper(pubmed_id, title, publication_date, authors, abstract, journal) ==
  IF pubmed_id.t # "str" THEN Raise("AttributeError")
  ELSE IF IsBlank(pubmed_id.s) THEN Raise("ValueError")
  ELSE IF title.t # "str" THEN Raise("AttributeError")
  ELSE IF IsBlank(title.s) THEN Raise("ValueError")
  ELSE Ok([pubmed_id |-> pubmed_id.s, title |-> title.s,
           publication_date |-> publication_date, authors |-> authors,
           abstract |-> abstract, journal |-> journal])

\* title = title.get("#text", "") of a title that is a dict
TitleText(title) == IF title.t = "dict" THEN Get(title, "#text", EmptyStr) ELSE title

\* The except clause of _parse_paper_data: None for any exception
PaperOrNone(made) == IF IsRaise(made) THEN None ELSE Some(made.v)

PaperFromFields(pmid, title, pub_date, journal, abstract, authors) ==
  IF \/ IsRaise(pmid) \/ IsRaise(title) \/ IsRaise(pub_date)
     \/ IsRaise(journal) \/ IsRaise(abstract) \/ IsRaise(authors)
  THEN None
  ELSE PaperOrNone(NewPaper(pmid, title, pub_date.v, authors.v, abstract.v,
                            AffiliationOf(journal)))

PaperFromArticle(pmid, article) ==
  PaperFromFields(pmid,
                  TitleText(Get(article, "ArticleTitle", EmptyStr)),
                  parse_publication_date(
                    Get(Get(article, "Journal", EmptyDict), "JournalIssue", EmptyDict)),
                  Get(Get(article, "Journal", EmptyDict), "Title", EmptyStr),
                  parse_abstract(Get(article, "Abstract", EmptyDict)),
                  parse_authors(Get(article, "AuthorList", EmptyDict)))

PaperFromCitation(medline_citation) ==
  PaperFromArticle(Get(Get(medline_citation, "PMID", EmptyDict), "#text", EmptyStr),
                   Get(medline_citation, "Article", EmptyDict))

\* PubMedClient._parse_paper_data: Some(paper), or None after an exception,
\* which the function logs.
parse_paper_data(article_data) ==
  PaperFromCitation(Get(article_data, "MedlineCitation", EmptyDict))

\* papers.append(paper) `if paper`
AppendPaper(papers_so_far, parsed) ==
  IF parsed # None THEN Append(papers_so_far, parsed[1]) ELSE papers_so_far

\* The loop of _fetch_paper_details ending at the first article whose
\* parsing yields no paper.
RECURSIVE ArticlesLoopUntilFailure(_, _, _)
UnlessFailed(pubmed_articles, i, papers_so_far, parsed) ==
  IF parsed = None THEN papers_so_far
  ELSE ArticlesLoopUntilFailure(pubmed_articles, i + 1, Append(papers_so_far, parsed[1]))

ArticlesLoopUntilFailure(pubmed_articles, i, papers_so_far) ==
  IF i > Len(pubmed_articles) THEN papers_so_far
  ELSE UnlessFailed(pubmed_articles, i, papers_so_far, parse_paper_data(pubmed_articles[i]))

\* The loop of _fetch_paper_details from article i on: an article whose
\* parsing yields no paper is skipped.
RECURSIVE ArticlesLoop(_, _, _)
ArticlesLoop(pubmed_articles, i, papers_so_far) ==
  IF i > Len(pubmed_articles) THEN papers_so_far
  ELSE ArticlesLoop(pubmed_articles, i + 1,
                    AppendPaper(papers_so_far, parse_paper_data(pubmed_articles[i])))

PapersOf(pubmed_articles) ==
  IF IsRaise(pubmed_articles) THEN pubmed_articles
  ELSE IF pubmed_articles.t = "none" THEN Raise("TypeError")
  ELSE Ok(ArticlesLoop(ItemsOf(pubmed_articles), 1, << >>))

\* _fetch_paper_details after the request: parse the body and the articles.
parse_fetched(root) ==
  PapersOf(Get(Get(xmltodict_parse(root), "PubmedArticleSet", EmptyDict),
               "PubmedArticle", List(<< >>)))
(***************************************************************************)
(* Retrieval Client: the two requests of search_papers                     *)
(***************************************************************************)
\* self.min_request_interval = 0.34, in hundredths of a second
min_request_interval == 34

\* time.time() when the first client is constructed
StartTime == 100

\* The clock advances by this much at a time while the caller or the
\* network is busy.
Tick == min_request_interval \div 2

\* time.sleep returns on time, or this much late.
Late == {0, 1}

\* _rate_limit sleeping for the time that has passed, not for what is left
sleep_time_of_the_elapsed(current_time, last) ==
  IF current_time - last < min_request_interval THEN current_time - last ELSE 0

\* The sleep_time of _rate_limit: the remainder of the interval, 0 for no sleep.
sleep_time(current_time, last) ==
  IF current_time - last < min_request_interval
  THEN min_request_interval - (current_time - last)
  ELSE 0

\* str(n) of an int
RECURSIVE DecimalDigits(_)
DecimalDigits(n) ==
  IF n < 10 THEN <<Digits[n + 1]>>
  ELSE DecimalDigits(n \div 10) \o <<Digits[(n % 10) + 1]>>

str(n) == IF n < 0 THEN <<"-">> \o DecimalDigits(0 - n) ELSE DecimalDigits(n)

\* requests.RequestException and its subclasses that session.get and
\* raise_for_status raise
RequestException == {"ConnectionError", "Timeout", "HTTPError"}

\* What session.get raises when no response arrives.
TransportErrors == {"ConnectionError", "Timeout"}

\* response.raise_for_status() raises HTTPError for these statuses.
raise_for_status(status) == status >= 400 /\ status < 600

\* How a search_papers call ends.
Returned(papers) == [raised |-> "", cause |-> "", papers |-> Some(papers)]

Raised(exc, cause) == [raised |-> exc, cause |-> cause, papers |-> None]

\* search_papers without its except clause
search_papers_lets_through(exc) == Raised(exc, "")

\* The except clause of search_papers: a RequestException is wrapped into a
\* PubMedAPIError (raise ... from e), any other exception passes through.
search_papers_except(exc) ==
  IF exc \in RequestException THEN Raised("PubMedAPIError", exc)
  ELSE Raised(exc, "")

\* What came back for a request: the status and, of an ID search, whether
\* the body holds "error" and its idlist; or the exception session.get raised.
Answer(status, error, idlist, exc) ==
  [status |-> status, error |-> error, idlist |-> idlist, exc |-> exc]

NoAnswer == Answer(0, FALSE, << >>, "")

\* An entry of the trace: a request with its retmax or id parameter, a
\* response or a failure with its answer.
Event(event, client, url, param, time, answer) ==
  [event |-> event, client |-> client, url |-> url, param |-> param, time |-> time,
   answer |-> answer]

(***************************************************************************)
(* The documents the detail fetch receives: <PubmedArticleSet> of articles *)
(* taken from these.                                                       *)
(***************************************************************************)
PMID(text) == El("PMID", [k \in {"@Version"} |-> <<"1">>], text, << >>)

AuthorEl(kids) == Node("Author", kids)

AffiliationInfo(text) == Node("AffiliationInfo", <<Leaf("Affiliation", text)>>)

PubDate(kids) == Node("JournalIssue", <<Node("PubDate", kids)>>)

ArticleEl(pmid, article_kids) ==
  Node("PubmedArticle", <<Node("MedlineCitation", <<pmid, Node("Article", article_kids)>>)>>)

\* a complete article: dated, with an abstract and an author whose
\* affiliation holds an e-mail address
a_complete ==
  ArticleEl(PMID(<<"1","1">>),
    << Node("Journal", <<PubDate(<<Leaf("Year", <<"2","0","2","3">>), Leaf("Month", <<"J","a","n">>),
                                   Leaf("Day", <<"1","5">>)>>),
                         Leaf("Title", <<"J">>)>>),
       Leaf("ArticleTitle", <<"T","1">>),
       Node("Abstract", <<Leaf("AbstractText", <<"A","b">>)>>),
       Node("AuthorList",
            <<AuthorEl(<<Leaf("LastName", <<"D","o","e">>), Leaf("ForeName", <<"J">>),
                         AffiliationInfo(<<"P","f","i","z","e","r"," ","I","n","c",".",","," ","j","@","p",".","c","o","m",".">>)>>)>>) >>)

\* a title with inline markup, two authors, one of them without a name, no journal
a_markup ==
  ArticleEl(PMID(<<"2","2">>),
    << El("ArticleTitle", NoAttrs, <<"T","2">>, <<Leaf("i", <<"x">>)>>),
       Node("AuthorList",
            <<AuthorEl(<<Leaf("Initials", <<"K">>)>>),
              AuthorEl(<<Leaf("LastName", <<"R","o","e">>), Leaf("Initials", <<"K">>)>>)>>) >>)

\* <PMID> without attributes: xmltodict gives its text, not a dict
a_bare_pmid ==
  ArticleEl(Leaf("PMID", <<"3","3">>), <<Leaf("ArticleTitle", <<"T","3">>)>>)

\* an empty identifier
a_empty_pmid ==
  ArticleEl(PMID(<< >>), <<Leaf("ArticleTitle", <<"T","4">>)>>)

\* an empty title element
a_empty_title ==
  ArticleEl(PMID(<<"5","5">>), <<Leaf("ArticleTitle", << >>)>>)

\* no title element, and a season for a month
a_no_title ==
  ArticleEl(PMID(<<"6","6">>),
    << Node("Journal", <<PubDate(<<Leaf("Year", <<"2","0","2","4">>), Leaf("Month", <<"S","p","r","i","n","g">>)>>)>>) >>)

\* <PubmedArticle/>
a_empty == Leaf("PubmedArticle", << >>)

ArticlePool ==
  {a_complete, a_markup, a_bare_pmid, a_empty_pmid, a_empty_title, a_no_title,
   a_empty}

PubmedArticleSet(articles) == Node("PubmedArticleSet", articles)

\* The identifiers the ID search answers with.
IdPool == { <<"1","1">>, <<"2","2">> }
(***************************************************************************)
(* Exporter (csv_writer.py)                                                *)
(***************************************************************************)
\* CSVWriter.HEADERS
HEADERS ==
  << <<"P","u","b","m","e","d","I","D">>, <<"T","i","t","l","e">>, <<"P","u","b","l","i","c","a","t","i","o","n"," ","D","a","t","e">>, <<"N","o","n","-","a","c","a","d","e","m","i","c"," ","A","u","t","h","o","r","(","s",")">>,
     <<"C","o","m","p","a","n","y"," ","A","f","f","i","l","i","a","t","i","o","n","(","s",")">>, <<"C","o","r","r","e","s","p","o","n","d","i","n","g"," ","A","u","t","h","o","r"," ","E","m","a","i","l">> >>

\* Digits filled with zeros on the left up to a width.
RECURSIVE ZeroPadded(_, _)
ZeroPadded(digits, width) ==
  IF Len(digits) >= width THEN digits ELSE ZeroPadded(<<"0">> \o digits, width)

\* %Y of strftime: the C library decides whether a year below 1000 is filled
\* with zeros (glibc writes the year as it is).
YearText(year, pads_year) ==
  IF pads_year THEN ZeroPadded(DecimalDigits(year), 4) ELSE DecimalDigits(year)

\* publication_date.strftime("%Y-%m-%d")
strftime(d, pads_year) ==
  YearText(d.year, pads_year) \o <<"-">> \o ZeroPadded(DecimalDigits(d.month), 2)
    \o <<"-">> \o ZeroPadded(DecimalDigits(d.day), 2)

\* [author.name for author in non_academic_authors]
NamesOf(authors) == [ i \in DOMAIN authors |-> authors[i].name ]

\* x or "" of an Optional[str]
OrEmpty(opt) == IF Truthy(opt) THEN opt[1] ELSE << >>

\* CSVWriter._paper_to_csv_row
paper_to_csv_row(paper, pads_year) ==
  << paper.pubmed_id,
     paper.title,
     IF paper.publication_date # None THEN strftime(paper.publication_date[1], pads_year)
     ELSE << >>,
     JoinWith(NamesOf(get_non_academic_authors(paper)), <<";", " ">>),
     JoinWith(get_company_affiliations(paper), <<";", " ">>),
     OrEmpty(get_corresponding_author_email(paper)) >>

\* csv.writer, QUOTE_MINIMAL: a field holding the delimiter, the quote
\* character or a character of the line terminator is quoted.
NeedsQuotes(field) == \E i \in DOMAIN field : field[i] \in {",", "\"", "\r", "\n"}

\* A field with each quote character doubled.
RECURSIVE Doubled(_)
Doubled(field) ==
  IF field = << >> THEN << >>
  ELSE (IF Head(field) = "\"" THEN <<"\"", "\"">> ELSE <<Head(field)>>) \o Doubled(Tail(field))

CsvField(field) ==
  IF NeedsQuotes(field) THEN <<"\"">> \o Doubled(field) \o <<"\"">> ELSE field

\* writer.writerow(row): the fields joined by commas and ended by "\r\n"
writerow(row) ==
  JoinWith([ i \in DOMAIN row |-> CsvField(row[i]) ], <<",">>) \o <<"\r", "\n">>

\* The loop of write_papers_to_csv, from paper i on
RECURSIVE RowsFrom(_, _, _)
RowsFrom(papers_given, i, pads_year) ==
  IF i > Len(papers_given) THEN << >>
  ELSE writerow(paper_to_csv_row(papers_given[i], pads_year))
         \o RowsFrom(papers_given, i + 1, pads_year)

\* CSVWriter.write_papers_to_csv: what output_file has received
write_papers_to_csv(papers_given, pads_year) ==
  writerow(HEADERS) \o RowsFrom(papers_given, 1, pads_year)

(***************************************************************************)
(* The command (cli.py): main from the return of search_papers on          *)
(***************************************************************************)
\* paper_filter.filter_papers_with_pharma_affiliations(all_papers), the
\* papers being the Paper objects themselves
filter_paper_objects(all_papers) == SelectSeq(all_papers, has_pharma_affiliation)

\* How the command ends: its exit status, what it wrote to standard output
\* and, if it wrote the file, the text of the file.
Outcome(code, out, written) ==
  [exit_code |-> Some(code), stdout |-> out, named_file |-> written]

\* sys.exit(1), in the body of main or in one of its except clauses: the
\* messages go to standard error.
Exit1 == Outcome(1, << >>, None)

\* "Output results": open(file, "w") raising OSError ends in the clause
\* `except Exception`; click.echo ends what it writes with a newline.
OutputResults(kept_papers, path, opens, pads_year) ==
  IF path # None
  THEN IF opens
       THEN Outcome(0, <<"R","e","s","u","l","t","s"," ","s","a","v","e","d"," ","t","o"," ">> \o path[1] \o <<"\n">>,
                    Some(write_papers_to_csv(kept_papers, pads_year)))
       ELSE Exit1
  ELSE Outcome(0, write_papers_to_csv(kept_papers, pads_year) \o <<"\n">>, None)

\* main writing the results whether or not the filter kept a paper.
AfterFilterWithoutCheck(kept_papers, path, opens, pads_year) ==
  OutputResults(kept_papers, path, opens, pads_year)

\* if not filtered_papers: sys.exit(1)
AfterFilter(kept_papers, path, opens, pads_year) ==
  IF kept_papers = << >> THEN Exit1
  ELSE OutputResults(kept_papers, path, opens, pads_year)

\* if not all_papers: sys.exit(1)
AfterSearch(all_papers, path, opens, pads_year) ==
  IF all_papers = << >> THEN Exit1
  ELSE AfterFilter(filter_paper_objects(all_papers), path, opens, pads_year)

\* main from the point where search_papers has returned or raised: both
\* except clauses exit with status 1.
main_after_search(ended, path, opens, pads_year) ==
  IF ended.raised # "" THEN Exit1
  ELSE AfterSearch(ended.papers[1], path, opens, pads_year)

(***************************************************************************)
(* State                                                                   *)
(***************************************************************************)
VARIABLES
  paper,                 \* the Paper whose authors are classified
  author,                \* the Author of `paper` under classification
  non_academic,          \* Optional: what Paper._is_non_academic_author(author) returned
  pharma_biotech,        \* Optional: what _is_pharma_biotech_affiliation(author.affiliation) returned
  non_academic_authors,  \* Optional: what paper.get_non_academic_authors() returned
  papers,                \* the list of papers (references) given to the Filter/Aggregator
  filtered_papers,       \* Optional: what filter_papers_with_pharma_affiliations(papers) returned
  statistics,            \* Optional: what get_paper_statistics(papers) returned
  kept_statistics,       \* Optional: what get_paper_statistics(filtered_papers) returned
  now,                   \* time.time(), in hundredths of a second
  last_request_time,     \* of each PubMedClient constructed: its last_request_time
  pc,                    \* of each client: where its search_papers call stands
  max_results,           \* of each client: the max_results of its call
  pmids,                 \* of each client: the identifiers _search_pmids returned
  fetched,               \* of each client: Optional, the document the detail fetch received
  result,                \* of each client: Optional, how its last search_papers call ended
  trace,                 \* the requests sent and the responses received, in order
  calls_left,            \* how many more search_papers calls the caller makes
  constructed,           \* Optional: the last construction of a record, with its arguments
  author_records,        \* the Author records that exist
  paper_records,         \* the Paper records that exist
  raised,                \* Optional: the exception the last construction raised
  queried,               \* the Paper whose queries are called
  company_affiliations,  \* Optional: what queried.get_company_affiliations() returned
  corresponding_author_email,  \* Optional: what queried.get_corresponding_author_email() returned
  kept,                  \* Optional: what the filter returned for the list [queried]
  exported,              \* the list of Papers given to the exporter
  c_library_pads_year,   \* whether strftime's %Y fills a year below 1000 with zeros
  output_file,           \* Optional: the text write_papers_to_csv wrote to output_file
  main_runs,             \* whether the caller of search_papers is the command (cli.main)
  file,                  \* the command's --file option: Optional, the path
  file_opens,            \* whether open(file, "w") succeeds
  exit_code,             \* Optional: the exit status of the command
  stdout,                \* the text the command wrote to standard output
  named_file             \* Optional: the text the command wrote to the file

classifyVars == <<paper, author, non_academic, pharma_biotech, non_academic_authors>>

filterVars == <<papers, filtered_papers, statistics, kept_statistics>>

clientVars ==
  <<now, last_request_time, pc, max_results, pmids, fetched, result, trace, calls_left>>

recordVars == <<constructed, author_records, paper_records, raised>>

queryVars == <<queried, company_affiliations, corresponding_author_email, kept>>

exportVars == <<exported, c_library_pads_year, output_file>>

laterVars == <<recordVars, queryVars, exportVars>>

mainVars == <<main_runs, file, file_opens, exit_code, stdout, named_file>>

vars == <<classifyVars, filterVars, clientVars, laterVars, mainVars>>

\* The variables of a specification that does not use them stay as they are here.
ClassifyIdle ==
  /\ author = Author(<<"T","e","s","t">>, None, None, FALSE)
  /\ paper = PaperOf(<<"1">>, <<"T">>, <<author>>)
  /\ non_academic = None
  /\ pharma_biotech = None
  /\ non_academic_authors = None

FilterIdle ==
  /\ papers = << >>
  /\ filtered_papers = None
  /\ statistics = None
  /\ kept_statistics = None

\* PubMedClient.__init__ for each client of the set, before any call
Constructed(clients) ==
  /\ last_request_time = [c \in clients |-> 0]
  /\ pc = [c \in clients |-> "idle"]
  /\ max_results = [c \in clients |-> 0]
  /\ pmids = [c \in clients |-> << >>]
  /\ fetched = [c \in clients |-> None]
  /\ result = [c \in clients |-> None]
  /\ trace = << >>

ClientIdle ==
  /\ now = StartTime
  /\ Constructed({1})
  /\ calls_left = 0

RecordsIdle ==
  /\ constructed = None
  /\ author_records = {}
  /\ paper_records = {}
  /\ raised = None

QueriesIdle ==
  /\ queried = PaperOf(<<"1">>, <<"T">>, << >>)
  /\ company_affiliations = None
  /\ corresponding_author_email = None
  /\ kept = None

ExportIdle ==
  /\ exported = << >>
  /\ c_library_pads_year = FALSE
  /\ output_file = None

\* No command runs: search_papers is called by a caller of its own.
MainIdle ==
  /\ main_runs = FALSE
  /\ file = None
  /\ file_opens = TRUE
  /\ exit_code = None
  /\ stdout = << >>
  /\ named_file = None

LaterIdle ==
  /\ RecordsIdle
  /\ QueriesIdle
  /\ ExportIdle
  /\ MainIdle

(***************************************************************************)
(* SpecClassify: the classifier and the Record Model's queries, applied to *)
(* one author of one paper.  The author's affiliation is absent, or is the *)
(* concatenation of at most MaxParts fragments.                            *)
(***************************************************************************)
MaxParts == 2

RECURSIVE Concats(_)
Concats(n) ==
  IF n = 0 THEN { << >> }
  ELSE Concats(n - 1) \cup { s \o f : s \in Concats(n - 1), f \in Fragments }

Affiliations == { None } \cup { Some(s) : s \in Concats(MaxParts) }

InitClassify ==
  /\ \E aff \in Affiliations, co \in { << >>, <<AcademicCoauthor>> } :
       /\ author = Author(<<"T","e","s","t">>, aff, None, FALSE)
       /\ paper = PaperOf(<<"1">>, <<"T">>, co \o <<author>>)
  /\ non_academic = None
  /\ pharma_biotech = None
  /\ non_academic_authors = None
  /\ FilterIdle
  /\ ClientIdle
  /\ LaterIdle

\* Paper._is_non_academic_author(author)
CallIsNonAcademicAuthor ==
  /\ non_academic = None
  /\ non_academic' = Some(is_non_academic_author(author))
  /\ UNCHANGED <<paper, author, pharma_biotech, non_academic_authors, filterVars, clientVars, laterVars, mainVars>>

\* PaperFilter._is_pharma_biotech_affiliation(author.affiliation)
CallIsPharmaBiotechAffiliation ==
  /\ pharma_biotech = None
  /\ pharma_biotech' = Some(is_pharma_biotech_affiliation(author.affiliation))
  /\ UNCHANGED <<paper, author, non_academic, non_academic_authors, filterVars, clientVars, laterVars, mainVars>>

\* paper.get_non_academic_authors()
CallGetNonAcademicAuthors ==
  /\ non_academic_authors = None
  /\ non_academic_authors' = Some(get_non_academic_authors(paper))
  /\ UNCHANGED <<paper, author, non_academic, pharma_biotech, filterVars, clientVars, laterVars, mainVars>>

NextClassify ==
  \/ CallIsNonAcademicAuthor
  \/ CallIsPharmaBiotechAffiliation
  \/ CallGetNonAcademicAuthors

SpecClassify == InitClassify /\ [][NextClassify]_vars

(***************************************************************************)
(* What the claims say about classification, stated without the code's     *)
(* operators: a keyword occurs in a text, ignoring case, when some slice   *)
(* of the text equals it letter for letter up to case.                     *)
(***************************************************************************)
SameLetter(c, k) == c = k \/ (c \in DOMAIN UpperToLower /\ UpperToLower[c] = k)

OccursIgnoringCase(kw, text) ==
  \E i \in 1..(Len(text) - Len(kw) + 1) :
    \A j \in 1..Len(kw) : SameLetter(text[i + j - 1], kw[j])

MentionsAny(keywords, text) == \E kw \in Range(keywords) : OccursIgnoringCase(kw, text)

NonEmpty(affiliation) == affiliation # None /\ Len(affiliation[1]) > 0

\* Non-empty and free of the Record Model's academic keywords.
NoRecordModelAcademicKeyword(a) ==
  NonEmpty(a.affiliation) /\ ~MentionsAny(Paper_academic_keywords, a.affiliation[1])

\* ... and, as the code requires, mentioning a Record Model company keyword.
NonAcademicByRecordModel(a) ==
  /\ NoRecordModelAcademicKeyword(a)
  /\ MentionsAny(Paper_company_keywords, a.affiliation[1])

\* The company test as the spec states it (4.1 step 3), on a non-empty text.
CompanyTest(text) ==
  \/ MentionsAny(known_companies, text)
  \/ MentionsAny(pharma_keywords, text)
  \/ MentionsAny(company_keywords, text) /\ ~MentionsAny(academic_keywords, text)

\* C2 as claimed: an author is non-academic, and is returned by
\* get_non_academic_authors, exactly when the affiliation is non-empty and
\* mentions none of the Record Model's academic keywords.
C2_AsClaimed ==
  /\ non_academic # None =>
       (non_academic[1] <=> NoRecordModelAcademicKeyword(author))
  /\ non_academic_authors # None =>
       non_academic_authors[1] = SelectSeq(paper.authors, NoRecordModelAcademicKeyword)

\* C2 amended: an author is non-academic, and is returned by
\* get_non_academic_authors (in author order), exactly when the affiliation is
\* non-empty, mentions none of the Record Model's academic keywords and
\* mentions at least one of the Record Model's company keywords; an author
\* with an empty or absent affiliation is never non-academic.
C2_NonAcademicExactly ==
  /\ non_academic # None =>
       /\ non_academic[1] <=> NonAcademicByRecordModel(author)
       /\ ~NonEmpty(author.affiliation) => ~non_academic[1]
  /\ non_academic_authors # None =>
       non_academic_authors[1] = SelectSeq(paper.authors, NonAcademicByRecordModel)

\* C2 witness: an affiliation with neither an academic nor a company keyword
\* was classified, and found not to be non-academic.
C2_Witness ==
  /\ NoRecordModelAcademicKeyword(author)
  /\ non_academic = Some(FALSE)
  /\ non_academic_authors = Some(<< >>)

\* C3 as claimed: an affiliation mentioning any keyword of the classifier's
\* academic list is never classified non-academic.
C3_AsClaimed ==
  (non_academic # None /\ NonEmpty(author.affiliation)
     /\ MentionsAny(academic_keywords, author.affiliation[1]))
  => ~non_academic[1]

\* C4: on a non-empty affiliation the company test is true exactly when the
\* text mentions a known company, or a pharma/biotech keyword, or a
\* legal-entity keyword and no keyword of the classifier's academic list.
C4_CompanyTestExactly ==
  (pharma_biotech # None /\ NonEmpty(author.affiliation)) =>
    /\ pharma_biotech[1] <=> CompanyTest(author.affiliation[1])
    /\ (MentionsAny(known_companies, author.affiliation[1])
         \/ MentionsAny(pharma_keywords, author.affiliation[1])) => pharma_biotech[1]
    /\ (MentionsAny(academic_keywords, author.affiliation[1])
         /\ ~MentionsAny(known_companies, author.affiliation[1])
         /\ ~MentionsAny(pharma_keywords, author.affiliation[1])) => ~pharma_biotech[1]

\* C4 witness: a text with a legal-entity keyword and an academic keyword of
\* the classifier's list, and neither company name nor pharma keyword, was
\* tested and rejected.
C4_Witness ==
  /\ NonEmpty(author.affiliation)
  /\ MentionsAny(company_keywords, author.affiliation[1])
  /\ MentionsAny(academic_keywords, author.affiliation[1])
  /\ ~MentionsAny(Paper_academic_keywords, author.affiliation[1])
  /\ pharma_biotech = Some(FALSE)

(***************************************************************************)
(* SpecFilter: the Filter/Aggregator applied to a list of at most          *)
(* MaxPapers papers, an object possibly listed more than once.             *)
(***************************************************************************)
MaxPapers == 3

RECURSIVE SeqsUpTo(_, _)
SeqsUpTo(S, n) ==
  IF n = 0 THEN { << >> }
  ELSE SeqsUpTo(S, n - 1) \cup { Append(s, x) : s \in SeqsUpTo(S, n - 1), x \in S }

InitFilter ==
  /\ papers \in SeqsUpTo(Refs, MaxPapers)
  /\ filtered_papers = None
  /\ statistics = None
  /\ kept_statistics = None
  /\ ClassifyIdle
  /\ ClientIdle
  /\ LaterIdle

\* filter.filter_papers_with_pharma_affiliations(papers)
CallFilterPapers ==
  /\ filtered_papers = None
  /\ filtered_papers' = Some(filter_papers_with_pharma_affiliations(papers))
  /\ UNCHANGED <<papers, statistics, kept_statistics, classifyVars, clientVars, laterVars, mainVars>>

\* filter.get_paper_statistics(papers)
CallGetPaperStatistics ==
  /\ statistics = None
  /\ statistics' = Some(get_paper_statistics(papers))
  /\ UNCHANGED <<papers, filtered_papers, kept_statistics, classifyVars, clientVars, laterVars, mainVars>>

NextFilter ==
  \/ CallFilterPapers
  \/ CallGetPaperStatistics

SpecFilter == InitFilter /\ [][NextFilter]_vars

(***************************************************************************)
(* What the claims say about the Filter/Aggregator.                        *)
(***************************************************************************)
\* Some author is free of Record Model academic keywords and passes the
\* company test.
QualifiesAsClaimed(p) ==
  \E i \in DOMAIN p.authors :
    /\ NoRecordModelAcademicKeyword(p.authors[i])
    /\ CompanyTest(p.authors[i].affiliation[1])

\* ... and also mentions a Record Model company keyword.
Qualifies(p) ==
  \E i \in DOMAIN p.authors :
    /\ NonAcademicByRecordModel(p.authors[i])
    /\ CompanyTest(p.authors[i].affiliation[1])

OnlyAuthorNamesKnownCompanyAlone(p) ==
  /\ Len(p.authors) = 1
  /\ NonEmpty(p.authors[1].affiliation)
  /\ \E c \in Range(known_companies) : lower(p.authors[1].affiliation[1]) = c

\* C1 as claimed: the filter keeps a paper exactly when some author's
\* affiliation is non-empty, mentions no Record Model academic keyword and
\* passes the company test; a paper whose only author is at a known company
\* named alone is kept.
C1_AsClaimed ==
  filtered_papers # None =>
    \A i \in DOMAIN papers :
      /\ papers[i] \in Range(filtered_papers[1]) <=> QualifiesAsClaimed(Heap[papers[i]])
      /\ OnlyAuthorNamesKnownCompanyAlone(Heap[papers[i]])
           => papers[i] \in Range(filtered_papers[1])

\* C1 amended: the filter keeps a paper exactly when some author's affiliation
\* is non-empty, mentions no Record Model academic keyword, mentions at least
\* one Record Model company keyword and passes the company test; a paper whose
\* only author is at a known company named alone is kept only if that name
\* mentions a Record Model company keyword.
C1_KeepsExactly ==
  filtered_papers # None =>
    \A i \in DOMAIN papers :
      /\ papers[i] \in Range(filtered_papers[1]) <=> Qualifies(Heap[papers[i]])
      /\ (OnlyAuthorNamesKnownCompanyAlone(Heap[papers[i]])
            /\ papers[i] \in Range(filtered_papers[1]))
           => MentionsAny(Paper_company_keywords, Heap[papers[i]].authors[1].affiliation[1])

\* C1 witness: a list holding a paper whose only author is at a known company
\* named alone and a paper of a qualifying author was filtered; the first was
\* dropped and the second kept.
C1_Witness ==
  /\ filtered_papers # None
  /\ \E i, j \in DOMAIN papers :
       /\ OnlyAuthorNamesKnownCompanyAlone(Heap[papers[i]])
       /\ papers[i] \notin Range(filtered_papers[1])
       /\ Qualifies(Heap[papers[j]])
       /\ papers[j] \in Range(filtered_papers[1])

\* out is in picked from in at increasing positions.
IsSubsequence(out, in) ==
  \E f \in [DOMAIN out -> DOMAIN in] :
    /\ \A i, j \in DOMAIN out : i < j => f[i] < f[j]
    /\ \A i \in DOMAIN out : in[f[i]] = out[i]

\* C5: the filter's output is a sub-sequence of its input: the same objects,
\* each at most as often as in the input, in the same relative order.
C5_OutputIsSubsequence ==
  filtered_papers # None => IsSubsequence(filtered_papers[1], papers)

\* C5 witness: of three papers the middle one was dropped and the two others
\* were kept, in their order.
C5_Witness ==
  /\ Len(papers) = 3
  /\ papers[1] # papers[3]
  /\ filtered_papers = Some(<<papers[1], papers[3]>>)

NonAcademicPositions(p) ==
  { j \in DOMAIN p.authors : NonAcademicByRecordModel(p.authors[j]) }

RECURSIVE SumOver(_, _)
SumOver(f, S) ==
  IF S = {} THEN 0
  ELSE LET x == CHOOSE y \in S : TRUE IN f[x] + SumOver(f, S \ {x})

\* C6: get_paper_statistics returns the length of the list, the number of
\* papers with a non-academic author, the number of distinct affiliation
\* strings of non-academic authors, the number of non-academic authors and
\* the number of papers with a corresponding-author email.
C6_StatisticsAreTheCounts ==
  statistics # None =>
    LET st == statistics[1]
        p(i) == Heap[papers[i]]
    IN  /\ st.total_papers = Len(papers)
        /\ st.papers_with_pharma_affiliations
             = Cardinality({ i \in DOMAIN papers : NonAcademicPositions(p(i)) # {} })
        /\ st.unique_companies
             = Cardinality(UNION { { p(i).authors[j].affiliation[1] :
                                       j \in NonAcademicPositions(p(i)) } :
                                   i \in DOMAIN papers })
        /\ st.total_non_academic_authors
             = SumOver([i \in DOMAIN papers |-> Cardinality(NonAcademicPositions(p(i)))],
                       DOMAIN papers)
        /\ st.papers_with_corresponding_mails
             = Cardinality({ i \in DOMAIN papers :
                               \E j \in DOMAIN p(i).authors :
                                 /\ p(i).authors[j].is_corresponding
                                 /\ p(i).authors[j].email # None
                                 /\ p(i).authors[j].email[1] # << >> })
        /\ st.papers_with_pharma_affiliations <= st.total_papers

\* C6 witness: statistics of a list in which a company recurs across papers,
\* some paper has no non-academic author and some paper has a
\* corresponding-author email.
C6_Witness ==
  /\ statistics # None
  /\ statistics[1].total_papers = 3
  /\ statistics[1].papers_with_pharma_affiliations = 2
  /\ statistics[1].unique_companies = 2
  /\ statistics[1].total_non_academic_authors = 4
  /\ statistics[1].papers_with_corresponding_mails = 1

(***************************************************************************)
(* search_papers, step by step.  A call runs until it waits for a          *)
(* response; the response, or the failure of the request, resumes it.      *)
(* The caller is single-threaded: a call starts when no call is running.   *)
(***************************************************************************)
MaxTime == 134

MaxLimit == 3

MaxIds == 2

MaxArticles == 2

MaxCalls == 2

Statuses == {200, 503}

\* The command has ended as `outcome`.
CommandEnds(outcome) ==
  /\ exit_code' = outcome.exit_code
  /\ stdout' = outcome.stdout
  /\ named_file' = outcome.named_file
  /\ UNCHANGED <<main_runs, file, file_opens>>

\* The caller of search_papers once the call has taken a step: the command
\* runs to its end when the call has ended; a caller of its own does
\* nothing more.
CallerGoesOn(c) ==
  IF main_runs /\ pc'[c] = "done"
  THEN CommandEnds(main_after_search(result'[c][1], file, file_opens, c_library_pads_year))
  ELSE UNCHANGED mainVars

\* _rate_limit: the times at which it can return, having slept for
\* sleep_time or a little longer; it records that time as last_request_time.
rate_limit(c) ==
  LET slept == sleep_time(now, last_request_time[c])
  IN  { now + slept + late : late \in (IF slept > 0 THEN Late ELSE {0}) }

\* search_papers(query, limit) up to the sending of the ID search
CallSearchPapers(c, limit) ==
  /\ calls_left > 0
  /\ \A d \in DOMAIN pc : pc[d] \in {"idle", "done"}
  /\ \E t \in rate_limit(c) :
       /\ now' = t
       /\ last_request_time' = [last_request_time EXCEPT ![c] = t]
       /\ trace' = Append(trace, Event("request", c, "esearch.fcgi", str(limit), t, NoAnswer))
  /\ pc' = [pc EXCEPT ![c] = "esearch"]
  /\ max_results' = [max_results EXCEPT ![c] = limit]
  /\ pmids' = [pmids EXCEPT ![c] = << >>]
  /\ fetched' = [fetched EXCEPT ![c] = None]
  /\ result' = [result EXCEPT ![c] = None]
  /\ calls_left' = calls_left - 1
  /\ UNCHANGED <<classifyVars, filterVars, laterVars>>
  /\ UNCHANGED mainVars

\* session.get of the ID search raises exc
EsearchFails(c, exc) ==
  /\ pc[c] = "esearch"
  /\ trace' = Append(trace, Event("failure", c, "esearch.fcgi", << >>, now, Answer(0, FALSE, << >>, exc)))
  /\ result' = [result EXCEPT ![c] = Some(search_papers_except(exc))]
  /\ pc' = [pc EXCEPT ![c] = "done"]
  /\ UNCHANGED <<now, last_request_time, max_results, pmids, fetched, calls_left,
                 classifyVars, filterVars, laterVars>>
  /\ CallerGoesOn(c)

\* The ID search is answered and _search_pmids does not look for "error" in
\* the body.
EsearchRespondsIgnoringError(c, status, error, idlist) ==
  /\ pc[c] = "esearch"
  /\ LET received == Append(trace, Event("response", c, "esearch.fcgi", << >>, now,
                                         Answer(status, error, idlist, "")))
     IN  IF raise_for_status(status) \/ idlist = << >>
         THEN /\ result' = [result EXCEPT ![c] =
                   Some(IF raise_for_status(status) THEN search_papers_except("HTTPError")
                        ELSE Returned(<< >>))]
              /\ pc' = [pc EXCEPT ![c] = "done"]
              /\ trace' = received
              /\ UNCHANGED <<now, last_request_time, pmids>>
         ELSE /\ pmids' = [pmids EXCEPT ![c] = idlist]
              /\ \E t \in rate_limit(c) :
                   /\ now' = t
                   /\ last_request_time' = [last_request_time EXCEPT ![c] = t]
                   /\ trace' = Append(received,
                        Event("request", c, "efetch.fcgi", JoinWith(idlist, <<",">>), t, NoAnswer))
              /\ pc' = [pc EXCEPT ![c] = "efetch"]
              /\ UNCHANGED result
  /\ UNCHANGED <<max_results, fetched, calls_left, classifyVars, filterVars, laterVars>>
  /\ CallerGoesOn(c)

\* The ID search is answered: the rest of _search_pmids, and search_papers
\* up to its return or to the sending of the detail fetch.
EsearchResponds(c, status, error, idlist) ==
  /\ pc[c] = "esearch"
  /\ LET received == Append(trace, Event("response", c, "esearch.fcgi", << >>, now,
                                         Answer(status, error, idlist, "")))
     IN  IF raise_for_status(status) \/ error \/ idlist = << >>
         THEN /\ result' = [result EXCEPT ![c] =
                   Some(IF raise_for_status(status) THEN search_papers_except("HTTPError")
                        ELSE IF error THEN search_papers_except("PubMedAPIError")
                        ELSE Returned(<< >>))]
              /\ pc' = [pc EXCEPT ![c] = "done"]
              /\ trace' = received
              /\ UNCHANGED <<now, last_request_time, pmids>>
         ELSE /\ pmids' = [pmids EXCEPT ![c] = idlist]
              /\ \E t \in rate_limit(c) :
                   /\ now' = t
                   /\ last_request_time' = [last_request_time EXCEPT ![c] = t]
                   /\ trace' = Append(received,
                        Event("request", c, "efetch.fcgi", JoinWith(idlist, <<",">>), t, NoAnswer))
              /\ pc' = [pc EXCEPT ![c] = "efetch"]
              /\ UNCHANGED result
  /\ UNCHANGED <<max_results, fetched, calls_left, classifyVars, filterVars, laterVars>>
  /\ CallerGoesOn(c)

\* session.get of the detail fetch raises exc
EfetchFails(c, exc) ==
  /\ pc[c] = "efetch"
  /\ trace' = Append(trace, Event("failure", c, "efetch.fcgi", << >>, now, Answer(0, FALSE, << >>, exc)))
  /\ result' = [result EXCEPT ![c] = Some(search_papers_except(exc))]
  /\ pc' = [pc EXCEPT ![c] = "done"]
  /\ UNCHANGED <<now, last_request_time, max_results, pmids, fetched, calls_left,
                 classifyVars, filterVars, laterVars>>
  /\ CallerGoesOn(c)

\* The detail fetch is answered with a body that is the document `body`, or
\* is not well-formed (None): the rest of _fetch_paper_details and of
\* search_papers.
EfetchResponds(c, status, body) ==
  /\ pc[c] = "efetch"
  /\ trace' = Append(trace, Event("response", c, "efetch.fcgi", << >>, now,
                             Answer(status, FALSE, << >>, "")))
  /\ fetched' = [fetched EXCEPT ![c] = body]
  /\ result' = [result EXCEPT ![c] =
       Some(IF raise_for_status(status) THEN search_papers_except("HTTPError")
            ELSE IF body = None THEN search_papers_except("ExpatError")
            ELSE LET papers_parsed == parse_fetched(body[1])
                 IN  IF IsRaise(papers_parsed) THEN search_papers_except(papers_parsed.exc)
                     ELSE Returned(papers_parsed.v))]
  /\ pc' = [pc EXCEPT ![c] = "done"]
  /\ UNCHANGED <<now, last_request_time, max_results, pmids, calls_left,
                 classifyVars, filterVars, laterVars>>
  /\ CallerGoesOn(c)

\* Time passes.
Elapse ==
  /\ now + Tick <= MaxTime
  /\ now' = now + Tick
  /\ UNCHANGED <<last_request_time, pc, max_results, pmids, fetched, result, trace,
                 calls_left, classifyVars, filterVars, laterVars>>
  /\ UNCHANGED mainVars

\* The lists of at most n distinct identifiers of the pool
IdLists(n) ==
  { s \in SeqsUpTo(IdPool, n) : \A i, j \in DOMAIN s : i # j => s[i] # s[j] }

Min(a, b) == IF a < b THEN a ELSE b

\* The bodies of a detail fetch: a document of at most MaxArticles articles,
\* or a body that is not well-formed.
Bodies ==
  { None } \cup { Some(PubmedArticleSet(s)) : s \in SeqsUpTo(ArticlePool, MaxArticles) }

(***************************************************************************)
(* SpecSearch: one client, one call of search_papers(query, limit) with    *)
(* 0 <= limit <= MaxLimit; the service answers the ID search with at most  *)
(* `limit` (and at most MaxIds) identifiers.                               *)
(***************************************************************************)
InitSearch ==
  /\ now = StartTime
  /\ Constructed({1})
  /\ calls_left = 1
  /\ ClassifyIdle
  /\ FilterIdle
  /\ LaterIdle

NextSearch ==
  \/ \E c \in DOMAIN pc, limit \in 0..MaxLimit : CallSearchPapers(c, limit)
  \/ \E c \in DOMAIN pc, exc \in TransportErrors : EsearchFails(c, exc)
  \/ \E c \in DOMAIN pc, status \in Statuses, error \in BOOLEAN :
       \E idlist \in IdLists(Min(max_results[c], MaxIds)) :
         EsearchResponds(c, status, error, idlist)
  \/ \E c \in DOMAIN pc, exc \in TransportErrors : EfetchFails(c, exc)
  \/ \E c \in DOMAIN pc, status \in Statuses, body \in Bodies :
       EfetchResponds(c, status, body)
  \/ Elapse

SpecSearch == InitSearch /\ [][NextSearch]_vars

(***************************************************************************)
(* SpecRate: two clients, MaxCalls calls of search_papers between them,    *)
(* one after the other; the service answers with one identifier or none,   *)
(* and with one document.                                                  *)
(***************************************************************************)
InitRate ==
  /\ now = StartTime
  /\ Constructed({1, 2})
  /\ calls_left = MaxCalls
  /\ ClassifyIdle
  /\ FilterIdle
  /\ LaterIdle

NextRate ==
  \/ \E c \in DOMAIN pc : CallSearchPapers(c, 1)
  \/ \E c \in DOMAIN pc : EsearchFails(c, "ConnectionError")
  \/ \E c \in DOMAIN pc, idlist \in IdLists(1) : EsearchResponds(c, 200, FALSE, idlist)
  \/ \E c \in DOMAIN pc : EfetchFails(c, "ConnectionError")
  \/ \E c \in DOMAIN pc : EfetchResponds(c, 200, Some(PubmedArticleSet(<<a_markup>>)))
  \/ Elapse

SpecRate == InitRate /\ [][NextRate]_vars

(***************************************************************************)
(* SpecMain: one run of the command, get-papers-list QUERY --max-results   *)
(* limit [--file out.csv], with 1 <= limit <= MaxLimit; the file can be    *)
(* opened for writing or cannot.                                           *)
(***************************************************************************)
\* The bodies of the detail fetch in a run of the command.
MainBodies ==
  { None } \cup { Some(PubmedArticleSet(s)) :
                     s \in SeqsUpTo({a_complete, a_markup, a_empty}, MaxArticles) }

InitMain ==
  /\ now = StartTime
  /\ Constructed({1})
  /\ calls_left = 1
  /\ main_runs = TRUE
  /\ file \in { None, Some(<<"o","u","t",".","c","s","v">>) }
  /\ file_opens \in (IF file = None THEN {TRUE} ELSE BOOLEAN)
  /\ exit_code = None
  /\ stdout = << >>
  /\ named_file = None
  /\ ClassifyIdle
  /\ FilterIdle
  /\ RecordsIdle
  /\ QueriesIdle
  /\ ExportIdle

NextMain ==
  \/ \E limit \in 1..MaxLimit : CallSearchPapers(1, limit)
  \/ \E exc \in TransportErrors : EsearchFails(1, exc)
  \/ \E status \in Statuses, error \in BOOLEAN :
       \E idlist \in IdLists(Min(max_results[1], MaxIds)) :
         EsearchResponds(1, status, error, idlist)
  \/ \E exc \in TransportErrors : EfetchFails(1, exc)
  \/ \E status \in Statuses, body \in MainBodies : EfetchResponds(1, status, body)

SpecMain == InitMain /\ [][NextMain]_vars
(***************************************************************************)
(* Claims about the Retrieval Client                                       *)
(***************************************************************************)
\* The places of the trace where client c sent a request to url.
RequestsOf(c, url) ==
  { i \in DOMAIN trace :
      trace[i].event = "request" /\ trace[i].client = c /\ trace[i].url = url }

\* The places of the trace where client c received a response from url.
ResponsesOf(c, url) ==
  { i \in DOMAIN trace :
      trace[i].event = "response" /\ trace[i].client = c /\ trace[i].url = url }

Success(status) == status \in 200..299

\* The identifiers a response of the ID search returned.
ReturnedIds(e) ==
  IF Success(e.answer.status) /\ ~e.answer.error THEN e.answer.idlist ELSE << >>

\* The number a text of decimal digits reads as.
RECURSIVE Reads(_, _)
Reads(text, n) ==
  /\ text # << >>
  /\ Digits[(n % 10) + 1] = text[Len(text)]
  /\ IF n < 10 THEN Len(text) = 1 ELSE Reads(SubSeq(text, 1, Len(text) - 1), n \div 10)

\* The pieces of a text between its commas.
RECURSIVE SplitAtCommas(_)
SplitAtCommas(text) ==
  IF \A i \in DOMAIN text : text[i] # "," THEN <<text>>
  ELSE LET k == CHOOSE k \in DOMAIN text :
                  text[k] = "," /\ \A i \in 1..(k - 1) : text[i] # ","
       IN  <<SubSeq(text, 1, k - 1)>> \o SplitAtCommas(SubSeq(text, k + 1, Len(text)))

\* C7: one call of search_papers(query, limit) sends exactly one ID search,
\* with retmax = limit; when the response returns identifiers it sends
\* exactly one detail fetch, after that response, whose id parameter is the
\* returned identifiers joined by commas; when the response returns none,
\* the call returns the empty list and sends no detail fetch.
C7_OneSearchThenOneFetch ==
  \A c \in DOMAIN pc :
    pc[c] # "idle" =>
      /\ Cardinality(RequestsOf(c, "esearch.fcgi")) = 1
      /\ \A i \in RequestsOf(c, "esearch.fcgi") : Reads(trace[i].param, max_results[c])
      /\ Cardinality(RequestsOf(c, "efetch.fcgi")) <= 1
      /\ \A j \in RequestsOf(c, "efetch.fcgi") :
           \E r \in ResponsesOf(c, "esearch.fcgi") :
             /\ r < j
             /\ ReturnedIds(trace[r]) # << >>
             /\ SplitAtCommas(trace[j].param) = ReturnedIds(trace[r])
      /\ \A r \in ResponsesOf(c, "esearch.fcgi") :
           IF ReturnedIds(trace[r]) # << >>
           THEN Cardinality(RequestsOf(c, "efetch.fcgi")) = 1
           ELSE /\ RequestsOf(c, "efetch.fcgi") = {}
                /\ Success(trace[r].answer.status) /\ ~trace[r].answer.error
                     => result[c] = Some(Returned(<< >>))

\* C7 witness: a call with limit 2 whose ID search returned two identifiers
\* and whose detail fetch, sent later, was answered.
C7_Witness ==
  \E c \in DOMAIN pc :
    /\ pc[c] = "done"
    /\ max_results[c] = 2
    /\ \E r \in ResponsesOf(c, "esearch.fcgi"), j \in RequestsOf(c, "efetch.fcgi") :
         /\ Len(trace[r].answer.idlist) = 2
         /\ trace[j].time > trace[r].time
         /\ ResponsesOf(c, "efetch.fcgi") # {}

\* C7 witness of the other case: the ID search returned no identifier.
C7_WitnessNoIds ==
  \E c \in DOMAIN pc :
    /\ result[c] = Some(Returned(<< >>))
    /\ \E r \in ResponsesOf(c, "esearch.fcgi") : Success(trace[r].answer.status)
    /\ RequestsOf(c, "efetch.fcgi") = {}

\* A transport failure: no response at all, or a response whose status is
\* an error status.  The exception that is its cause.
TransportFailure(e) ==
  \/ e.event = "failure"
  \/ e.event = "response" /\ ~Success(e.answer.status)

CauseOf(e) == IF e.event = "failure" THEN e.answer.exc ELSE "HTTPError"

\* C9: when a request of search_papers fails at transport level, the call
\* ends by raising PubMedAPIError with the failure as its cause, returns no
\* papers, and the failed request is the last one the client sends.
C9_TransportFailureAborts ==
  \A i \in DOMAIN trace :
    TransportFailure(trace[i]) =>
      /\ pc[trace[i].client] = "done"
      /\ result[trace[i].client] # None
      /\ result[trace[i].client][1].raised = "PubMedAPIError"
      /\ result[trace[i].client][1].cause = CauseOf(trace[i])
      /\ result[trace[i].client][1].papers = None
      /\ \A j \in DOMAIN trace :
           j > i => ~(trace[j].event = "request" /\ trace[j].client = trace[i].client)

\* C9 witness: the ID search returned identifiers, then the detail fetch
\* failed without a response, and the call raised.
C9_Witness ==
  \E i \in DOMAIN trace :
    /\ trace[i].event = "failure"
    /\ trace[i].url = "efetch.fcgi"
    /\ trace[i].answer.exc = "ConnectionError"
    /\ pmids[trace[i].client] # << >>
    /\ result[trace[i].client] = Some(Raised("PubMedAPIError", "ConnectionError"))

\* The text of the element at the end of a path of tags below el: empty when
\* an element of the path is missing.
RECURSIVE TextAt(_, _)
TextAt(el, path) ==
  IF path = << >> THEN el.text
  ELSE IF \A i \in DOMAIN el.kids : el.kids[i].tag # path[1] THEN << >>
  ELSE TextAt(el.kids[CHOOSE i \in DOMAIN el.kids : el.kids[i].tag = path[1]], Tail(path))

IdentifierOf(article) == TextAt(article, <<"MedlineCitation", "PMID">>)

TitleOf(article) == TextAt(article, <<"MedlineCitation", "Article", "ArticleTitle">>)

\* The detail fetch of client c was answered with a well-formed document of
\* several articles.
SeveralArticlesFetched(c) ==
  /\ fetched[c] # None
  /\ Len(fetched[c][1].kids) >= 2
  /\ \E r \in ResponsesOf(c, "efetch.fcgi") : Success(trace[r].answer.status)

\* Whether the papers are the articles' papers, in order, from article i and
\* paper k on: an article gives the next paper, or fails to parse and gives
\* none.
RECURSIVE PapersFollowArticles(_, _, _, _)
NextPaperIs(articles, i, found, k, parsed) ==
  IF parsed = None THEN PapersFollowArticles(articles, i + 1, found, k)
  ELSE /\ k <= Len(found)
       /\ found[k] = parsed[1]
       /\ found[k].pubmed_id = IdentifierOf(articles[i])
       /\ found[k].title = TitleOf(articles[i])
       /\ PapersFollowArticles(articles, i + 1, found, k + 1)

PapersFollowArticles(articles, i, found, k) ==
  IF i > Len(articles) THEN k = Len(found) + 1
  ELSE NextPaperIs(articles, i, found, k, parse_paper_data(xmltodict_value(articles[i])))

\* C10: when the fetched document holds several articles, search_papers
\* returns, and what it returns is one Paper for every article that parses,
\* in document order; an article without identifier or without title gives
\* no paper and takes no other article's paper away.
C10_FailingArticlesAreSkipped ==
  \A c \in DOMAIN pc :
    SeveralArticlesFetched(c) =>
      /\ result[c] # None
      /\ result[c][1].raised = ""
      /\ PapersFollowArticles(fetched[c][1].kids, 1, result[c][1].papers[1], 1)
      /\ \A i \in DOMAIN fetched[c][1].kids :
           IdentifierOf(fetched[c][1].kids[i]) = << >> \/ TitleOf(fetched[c][1].kids[i]) = << >>
             => parse_paper_data(xmltodict_value(fetched[c][1].kids[i])) = None

\* C10 witness: of two articles the first has an empty title and the second
\* is complete; the call returned the second's paper alone.
C10_Witness ==
  \E c \in DOMAIN pc :
    /\ SeveralArticlesFetched(c)
    /\ fetched[c][1].kids = <<a_empty_title, a_complete>>
    /\ result[c] # None
    /\ result[c][1].raised = ""
    /\ Len(result[c][1].papers[1]) = 1
    /\ result[c][1].papers[1][1].pubmed_id = IdentifierOf(a_complete)

\* The times at which client c sent its requests so far.
OwnRequestTimes(c) ==
  { trace[i].time : i \in RequestsOf(c, "esearch.fcgi") \cup RequestsOf(c, "efetch.fcgi") }

\* The requests client c sends in this step.
SentNow(c) ==
  { i \in DOMAIN trace' :
      i > Len(trace) /\ trace'[i].event = "request" /\ trace'[i].client = c }

\* What is left of the minimum interval since the client's recorded time.
Remainder(c) ==
  IF now - last_request_time[c] < min_request_interval
  THEN min_request_interval - (now - last_request_time[c])
  ELSE 0

\* C8: a request a client sends comes at least the minimum interval after
\* every earlier request of that client; before sending it the client
\* waited for what was left of the interval since its recorded request time
\* (and no longer than the sleep overruns); the time recorded is the
\* request's; and a step in which a client sends nothing leaves its recorded
\* time alone, whatever the other clients send.
C8_MinimumSpacing ==
  [][\A c \in DOMAIN pc :
       IF SentNow(c) = {} THEN last_request_time'[c] = last_request_time[c]
       ELSE \A i \in SentNow(c) :
              /\ \A t \in OwnRequestTimes(c) : trace'[i].time - t >= min_request_interval
              /\ \E late \in Late : trace'[i].time - now = Remainder(c) + late
              /\ Remainder(c) = 0 => trace'[i].time = now
              /\ last_request_time'[c] = trace'[i].time]_vars

\* C8 witness: a client sent its second request exactly the minimum
\* interval after its first, having received the response in between, and
\* another client sent a request less than the interval away from it.
C8_Witness ==
  \E c \in DOMAIN pc, d \in DOMAIN pc :
    /\ c # d
    /\ \E i \in RequestsOf(c, "esearch.fcgi"), j \in RequestsOf(c, "efetch.fcgi") :
         /\ trace[j].time - trace[i].time = min_request_interval
         /\ \E r \in ResponsesOf(c, "esearch.fcgi") :
              trace[r].time > trace[i].time /\ trace[r].time < trace[j].time
         /\ \E k \in RequestsOf(d, "esearch.fcgi") :
              /\ trace[k].time - trace[j].time < min_request_interval
              /\ trace[j].time - trace[k].time < min_request_interval
(***************************************************************************)
(* SpecRecords: the Record Model's constructors (models.py).  A caller     *)
(* constructs Authors and Papers from the texts of Texts, blank ones among *)
(* them; at most MaxRecords records of a kind are kept.                    *)
(***************************************************************************)
MaxRecords == 1

\* The texts given as name, identifier and title: the empty and the blank
\* name of tests/test_models.py, other whitespace, and texts with a letter.
Texts == { << >>, <<" "," "," ">>, <<"\t", "\n">>, <<"A">>, <<" ","A"," ">>, <<"B">> }

InitRecords ==
  /\ RecordsIdle
  /\ QueriesIdle
  /\ ExportIdle
  /\ MainIdle
  /\ ClassifyIdle
  /\ FilterIdle
  /\ ClientIdle

\* The state after a constructor call that ended as `made`: the record
\* exists if __post_init__ raised nothing.
Construction(made, existing, others) ==
  /\ raised' = IF IsRaise(made) THEN Some(made.exc) ELSE None
  /\ existing' = IF IsRaise(made) THEN existing ELSE existing \cup {made.v}
  /\ Cardinality(existing') <= MaxRecords
  /\ UNCHANGED others

\* Author(name=name, affiliation=None)
ConstructAuthor(name) ==
  /\ constructed' = Some([record |-> "Author", name |-> name])
  /\ Construction(NewAuthor(Str(name), None, None, FALSE), author_records, paper_records)
  /\ UNCHANGED <<classifyVars, filterVars, clientVars, queryVars, exportVars, mainVars>>

\* Paper(pubmed_id=pubmed_id, title=title, publication_date=None, authors=[])
ConstructPaper(pubmed_id, title) ==
  /\ constructed' = Some([record |-> "Paper", pubmed_id |-> pubmed_id, title |-> title])
  /\ Construction(NewPaper(Str(pubmed_id), Str(title), None, << >>, None, None),
                  paper_records, author_records)
  /\ UNCHANGED <<classifyVars, filterVars, clientVars, queryVars, exportVars, mainVars>>

NextRecords ==
  \/ \E name \in Texts : ConstructAuthor(name)
  \/ \E pubmed_id \in Texts, title \in Texts : ConstructPaper(pubmed_id, title)

SpecRecords == InitRecords /\ [][NextRecords]_vars

(***************************************************************************)
(* The Record Model's construction contract                                *)
(***************************************************************************)
\* A text with no character that is not whitespace.
NothingButWhitespace(text) == ~ \E i \in 1..Len(text) : text[i] \notin {" ", "\t", "\n", "\r"}

\* The last construction was given a blank name, identifier or title.
BlankGiven(call) ==
  IF call.record = "Author" THEN NothingButWhitespace(call.name)
  ELSE NothingButWhitespace(call.pubmed_id) \/ NothingButWhitespace(call.title)

\* C11: a construction of an Author with an empty or whitespace-only name, or
\* of a Paper with an empty or whitespace-only identifier or title, raises
\* ValueError and leaves the records that exist as they were; and after any
\* construction every Author that exists has a name, and every Paper an
\* identifier and a title, that is not blank.
C11_BlankConstructionFails ==
  [][ /\ BlankGiven(constructed'[1]) =>
           /\ raised' = Some("ValueError")
           /\ UNCHANGED <<author_records, paper_records>>
      /\ \A a \in author_records' : ~NothingButWhitespace(a.name)
      /\ \A p \in paper_records' :
           ~NothingButWhitespace(p.pubmed_id) /\ ~NothingButWhitespace(p.title) ]_vars

\* C11 happens: a Paper with a whitespace-only title was refused while an
\* Author and a Paper exist.
C11_Witness ==
  /\ Truthy(constructed)
  /\ constructed[1].record = "Paper"
  /\ ~NothingButWhitespace(constructed[1].pubmed_id)
  /\ constructed[1].title # << >>
  /\ NothingButWhitespace(constructed[1].title)
  /\ raised = Some("ValueError")
  /\ author_records # {}
  /\ paper_records # {}

(***************************************************************************)
(* SpecQueries: the queries of one Paper (models.py) and the filter's      *)
(* decision on it.  The paper has at most MaxAuthors authors drawn from    *)
(* AuthorPool.                                                             *)
(***************************************************************************)
MaxAuthors == 3

\* The authors of tests/test_models.py and of the specification's scenario,
\* and authors for the cases they leave out.
AuthorPool ==
  { Author(<<"H">>, Some(<<"H","a","r","v","a","r","d"," ","M","e","d","i","c","a","l"," ","S","c","h","o","o","l">>), None, FALSE),
    Author(<<"P">>, Some(<<"P","f","i","z","e","r"," ","I","n","c",".">>), Some(e_author), TRUE),
    \* flagged corresponding, without an email
    Author(<<"Q">>, Some(<<"P","f","i","z","e","r"," ","I","n","c",".">>), None, TRUE),
    Author(<<"B">>, Some(<<"C","o","m","p","a","n","y"," ","B"," ","C","o","r","p",".">>), None, FALSE),
    \* an email, not flagged corresponding
    Author(<<"A">>, Some(<<"C","o","m","p","a","n","y"," ","A"," ","I","n","c",".">>), Some(<<"a","u","t","h","o","r","1","@","e","x","a","m","p","l","e",".","c","o","m">>), FALSE),
    \* an affiliation that begins with a lower-case letter
    Author(<<"L">>, Some(<<"c","o","m","p","a","n","y"," ","a"," ","l","t","d",".">>), None, FALSE),
    \* a legal-entity affiliation with an academic keyword of the classifier
    Author(<<"U">>, Some(f_United \o f_Inc), None, FALSE),
    \* corresponding, without affiliation
    Author(<<"N">>, None, Some(<<"a","u","t","h","o","r","2","@","e","x","a","m","p","l","e",".","c","o","m">>), TRUE) }

InitQueries ==
  /\ \E authors \in SeqsUpTo(AuthorPool, MaxAuthors) :
       queried = PaperOf(<<"1","2","3","4","5","6","7","8">>, <<"T","e","s","t"," ","P","a","p","e","r">>, authors)
  /\ company_affiliations = None
  /\ corresponding_author_email = None
  /\ kept = None
  /\ RecordsIdle
  /\ ExportIdle
  /\ MainIdle
  /\ ClassifyIdle
  /\ FilterIdle
  /\ ClientIdle

\* queried.get_company_affiliations()
CallGetCompanyAffiliations ==
  /\ company_affiliations' = Some(get_company_affiliations(queried))
  /\ UNCHANGED <<queried, corresponding_author_email, kept>>
  /\ UNCHANGED <<classifyVars, filterVars, clientVars, recordVars, exportVars, mainVars>>

\* queried.get_corresponding_author_email()
CallGetCorrespondingAuthorEmail ==
  /\ corresponding_author_email' = Some(get_corresponding_author_email(queried))
  /\ UNCHANGED <<queried, company_affiliations, kept>>
  /\ UNCHANGED <<classifyVars, filterVars, clientVars, recordVars, exportVars, mainVars>>

\* PaperFilter().filter_papers_with_pharma_affiliations([queried]): the loop
\* runs once and appends the paper if _has_pharma_affiliation says so.
CallFilterOnePaper ==
  /\ kept' = Some(IF has_pharma_affiliation(queried) THEN <<queried>> ELSE << >>)
  /\ UNCHANGED <<queried, company_affiliations, corresponding_author_email>>
  /\ UNCHANGED <<classifyVars, filterVars, clientVars, recordVars, exportVars, mainVars>>

NextQueries ==
  \/ CallGetCompanyAffiliations
  \/ CallGetCorrespondingAuthorEmail
  \/ CallFilterOnePaper

SpecQueries == InitQueries /\ [][NextQueries]_vars

(***************************************************************************)
(* What the claims say about the queries of a Paper.                       *)
(***************************************************************************)
\* Text a comes before text b in the order of code points: they agree up to
\* some position, where a ends and b goes on, or where a's character has the
\* smaller code point.
ComesBefore(a, b) ==
  \E k \in 1..(Len(b)) :
    /\ k <= Len(a) + 1
    /\ \A i \in 1..(k - 1) : a[i] = b[i]
    /\ k = Len(a) + 1 \/ ord(a[k]) < ord(b[k])

\* The affiliations of the authors of a paper, in author order.
AffiliationsInOrder(p) == [ i \in DOMAIN p.authors |-> p.authors[i].affiliation ]

\* C12: get_company_affiliations returns the affiliation strings of the
\* paper's non-academic authors, each once, every one before the next in
\* ascending order; for the paper with authors at "Harvard Medical School"
\* and "Pfizer Inc." it returns ["Pfizer Inc."], and the filter keeps that
\* paper.
C12_SortedUniqueAffiliations ==
  /\ company_affiliations # None =>
       /\ Range(company_affiliations[1])
            = { a.affiliation[1] : a \in Range(get_non_academic_authors(queried)) }
       /\ \A i, j \in DOMAIN company_affiliations[1] :
            i < j => ComesBefore(company_affiliations[1][i], company_affiliations[1][j])
  /\ AffiliationsInOrder(queried) = << Some(<<"H","a","r","v","a","r","d"," ","M","e","d","i","c","a","l"," ","S","c","h","o","o","l">>), Some(<<"P","f","i","z","e","r"," ","I","n","c",".">>) >> =>
       /\ company_affiliations # None => company_affiliations[1] = << <<"P","f","i","z","e","r"," ","I","n","c",".">> >>
       /\ kept # None => kept[1] = <<queried>>

\* C12 happens: three non-academic authors, two of them of one company and
\* not in ascending order, were listed as two affiliations.
C12_Witness ==
  /\ AffiliationsInOrder(queried)
       = << Some(<<"P","f","i","z","e","r"," ","I","n","c",".">>), Some(<<"C","o","m","p","a","n","y"," ","B"," ","C","o","r","p",".">>), Some(<<"P","f","i","z","e","r"," ","I","n","c",".">>) >>
  /\ company_affiliations = Some(<< <<"C","o","m","p","a","n","y"," ","B"," ","C","o","r","p",".">>, <<"P","f","i","z","e","r"," ","I","n","c",".">> >>)

\* C12 happens: the scenario of the specification.
C12_WitnessScenario ==
  /\ AffiliationsInOrder(queried) = << Some(<<"H","a","r","v","a","r","d"," ","M","e","d","i","c","a","l"," ","S","c","h","o","o","l">>), Some(<<"P","f","i","z","e","r"," ","I","n","c",".">>) >>
  /\ company_affiliations = Some(<< <<"P","f","i","z","e","r"," ","I","n","c",".">> >>)
  /\ kept = Some(<<queried>>)

\* C13 as claimed: every affiliation string that get_company_affiliations
\* reports belongs to a non-academic author of the paper and passes the
\* company test of the filter (_is_pharma_biotech_affiliation).
C13_AsClaimed ==
  company_affiliations # None =>
    \A i \in DOMAIN company_affiliations[1] :
      /\ \E a \in Range(get_non_academic_authors(queried)) :
           a.affiliation = Some(company_affiliations[1][i])
      /\ is_pharma_biotech_affiliation(Some(company_affiliations[1][i]))

\* The positions of the authors of the queried paper that are flagged
\* corresponding.
Flagged == { i \in DOMAIN queried.authors : queried.authors[i].is_corresponding }

\* ... and that also have a non-empty email.
FlaggedWithEmail ==
  { i \in Flagged : queried.authors[i].email # None /\ queried.authors[i].email # Some(<< >>) }

\* The email of the author at the least position of a set, none for the
\* empty set.
EmailOfFirst(positions) ==
  IF positions = {} THEN None
  ELSE queried.authors[CHOOSE i \in positions : \A j \in positions : i <= j].email

\* C16 as claimed: get_corresponding_author_email returns the email of the
\* first author flagged corresponding, and none when no author is flagged.
C16_AsClaimed ==
  corresponding_author_email # None => corresponding_author_email[1] = EmailOfFirst(Flagged)

\* C16: get_corresponding_author_email returns the email of the first author,
\* in author order, that is flagged corresponding and has a non-empty email,
\* and none when no author is both.
C16_FirstFlaggedWithEmail ==
  corresponding_author_email # None =>
    corresponding_author_email[1] = EmailOfFirst(FlaggedWithEmail)

\* C16 happens: the first author flagged corresponding has no email, a later
\* one has, and the later one's email was returned.
C16_Witness ==
  /\ Flagged # {}
  /\ EmailOfFirst(Flagged) = None
  /\ FlaggedWithEmail # {}
  /\ corresponding_author_email = Some(EmailOfFirst(FlaggedWithEmail))

(***************************************************************************)
(* SpecExport: the exporter (csv_writer.py) given a list of at most        *)
(* MaxRows papers drawn from ExportPool, on a C library that fills the     *)
(* year of strftime with zeros or on one that does not.                    *)
(***************************************************************************)
MaxRows == 3

\* A publication date
DateOf(year, month, day) == Some([year |-> year, month |-> month, day |-> day])

\* Paper(pubmed_id, title, publication_date, authors)
DatedPaper(pubmed_id, title, publication_date, authors) ==
  [PaperOf(pubmed_id, title, authors) EXCEPT !.publication_date = publication_date]

ExportPool ==
  { \* two non-academic authors, a corresponding email, a title that needs quoting
    DatedPaper(<<"1","1","1">>, <<"D","r","u","g",","," ">> \o <<"\"">> \o <<"n","e","w">> \o <<"\"">>, DateOf(2023, 3, 7),
               << Author(<<"P"," ","Q">>, Some(<<"P","f","i","z","e","r"," ","I","n","c",".">>), Some(e_author), TRUE),
                  Author(<<"H">>, Some(<<"H","a","r","v","a","r","d"," ","M","e","d","i","c","a","l"," ","S","c","h","o","o","l">>), None, FALSE),
                  Author(<<"B">>, Some(<<"C","o","m","p","a","n","y"," ","B"," ","C","o","r","p",".">>), None, FALSE) >>),
    \* no date, no non-academic author
    DatedPaper(<<"2","2">>, <<"A">>, None,
               << Author(<<"H">>, Some(<<"H","a","r","v","a","r","d"," ","M","e","d","i","c","a","l"," ","S","c","h","o","o","l">>), None, FALSE) >>),
    \* a year below 1000
    DatedPaper(<<"3">>, <<"O","l","d">>, DateOf(999, 12, 31),
               << Author(<<"U">>, Some(f_United \o f_Inc), None, FALSE) >>),
    \* two authors of one company, a title of two lines
    DatedPaper(<<"4">>, <<"T", "\n", "w", "o">>, DateOf(2024, 2, 29),
               << Author(<<"X">>, Some(<<"P","f","i","z","e","r"," ","I","n","c",".">>), None, TRUE),
                  Author(<<"Y">>, Some(<<"P","f","i","z","e","r"," ","I","n","c",".">>), None, FALSE) >>) }

InitExport ==
  /\ exported \in SeqsUpTo(ExportPool, MaxRows)
  /\ c_library_pads_year \in BOOLEAN
  /\ output_file = None
  /\ RecordsIdle
  /\ QueriesIdle
  /\ MainIdle
  /\ ClassifyIdle
  /\ FilterIdle
  /\ ClientIdle

\* CSVWriter().write_papers_to_csv(exported, output_file)
CallWritePapersToCsv ==
  /\ output_file' = Some(write_papers_to_csv(exported, c_library_pads_year))
  /\ UNCHANGED <<exported, c_library_pads_year>>
  /\ UNCHANGED <<classifyVars, filterVars, clientVars, recordVars, queryVars, mainVars>>

NextExport ==
  \/ CallWritePapersToCsv

SpecExport == InitExport /\ [][NextExport]_vars

(***************************************************************************)
(* What the claims say about the exporter.                                 *)
(***************************************************************************)
\* The least number of a set of positions, or `otherwise` for the empty set.
LeastOr(positions, otherwise) ==
  IF positions = {} THEN otherwise
  ELSE CHOOSE j \in positions : \A k \in positions : j <= k

\* The quote that closes the quoted field opening at position i: the first
\* one with an odd number of quotes up to it and no quote right after it.
ClosingQuote(text, i) ==
  LeastOr({ j \in (i + 1)..Len(text) :
              /\ text[j] = "\""
              /\ Cardinality({ k \in (i + 1)..j : text[k] = "\"" }) % 2 = 1
              /\ j = Len(text) \/ text[j + 1] # "\"" },
          Len(text) + 1)

\* Where the unquoted field starting at position i ends.
PlainEnd(text, i) ==
  LeastOr({ j \in i..Len(text) : text[j] \in {",", "\r", "\n"} }, Len(text) + 1)

\* The content of a quoted field, a doubled quote read as one.
RECURSIVE Undoubled(_)
Undoubled(content) ==
  IF Len(content) < 2 THEN content
  ELSE IF content[1] = "\"" /\ content[2] = "\"" THEN <<"\"">> \o Undoubled(Tail(Tail(content)))
  ELSE <<content[1]>> \o Undoubled(Tail(content))

\* The rows of a CSV text: fields are separated by commas and rows ended by
\* "\r\n" (or one of the two); a field in quotes holds commas, line ends and
\* doubled quotes as they are.  ReadCsv reads from position i, the start of
\* a field; AfterField goes on at position e, behind a field.
RECURSIVE ReadCsv(_, _, _, _)
AfterField(text, e, row, rows) ==
  IF e > Len(text) THEN Append(rows, row)
  ELSE IF text[e] = "," THEN ReadCsv(text, e + 1, row, rows)
  ELSE IF text[e] = "\r" /\ e < Len(text) /\ text[e + 1] = "\n"
  THEN ReadCsv(text, e + 2, << >>, Append(rows, row))
  ELSE ReadCsv(text, e + 1, << >>, Append(rows, row))

QuotedField(text, i, closing, row, rows) ==
  AfterField(text, closing + 1, Append(row, Undoubled(SubSeq(text, i + 1, closing - 1))), rows)

PlainField(text, i, e, row, rows) ==
  AfterField(text, e, Append(row, SubSeq(text, i, e - 1)), rows)

ReadCsv(text, i, row, rows) ==
  IF i > Len(text) THEN (IF row = << >> THEN rows ELSE Append(rows, Append(row, << >>)))
  ELSE IF text[i] = "\"" THEN QuotedField(text, i, ClosingQuote(text, i), row, rows)
  ELSE PlainField(text, i, PlainEnd(text, i), row, rows)

\* The rows that were written.
RowsWritten == ReadCsv(output_file[1], 1, << >>, << >>)

\* Texts joined by semicolons, a blank after each semicolon.
RECURSIVE Semicolons(_)
Semicolons(texts) ==
  IF Len(texts) = 0 THEN << >>
  ELSE IF Len(texts) = 1 THEN texts[1]
  ELSE texts[1] \o <<";", " ">> \o Semicolons(Tail(texts))

\* A number in decimal, at least `width` digits wide.
Decimal(n, width) ==
  [ i \in 1..width |-> Digits[((n \div (10 ^ (width - i))) % 10) + 1] ]

\* YYYY-MM-DD
IsoDate(d) == Decimal(d.year, 4) \o <<"-">> \o Decimal(d.month, 2) \o <<"-">> \o Decimal(d.day, 2)

\* The first five columns of the row of a paper as C14 states them.
ColumnsButDate(p) ==
  << p.pubmed_id,
     p.title,
     Semicolons([ i \in DOMAIN get_non_academic_authors(p) |-> get_non_academic_authors(p)[i].name ]),
     Semicolons(get_company_affiliations(p)),
     IF get_corresponding_author_email(p) = None THEN << >>
     ELSE get_corresponding_author_email(p)[1] >>

\* A row has six columns, and all but the date are those of paper p.
RowButDateIs(row, p) ==
  /\ Len(row) = 6
  /\ <<row[1], row[2], row[4], row[5], row[6]>> = ColumnsButDate(p)

\* C14 as claimed: the exporter writes the header row, then one row per paper
\* in input order, with the six columns identifier, title, publication date
\* as YYYY-MM-DD (empty without a date), the names of the non-academic
\* authors and the sorted unique company affiliations joined by semicolons,
\* and the corresponding-author email or empty.
C14_AsClaimed ==
  output_file # None =>
    /\ Len(RowsWritten) = Len(exported) + 1
    /\ RowsWritten[1] = HEADERS
    /\ \A i \in DOMAIN exported :
         /\ RowButDateIs(RowsWritten[i + 1], exported[i])
         /\ RowsWritten[i + 1][3]
              = IF exported[i].publication_date = None THEN << >>
                ELSE IsoDate(exported[i].publication_date[1])

\* Whatever the date column reads, the exporter writes the header row, then
\* one row per paper in input order, and the five other columns are as
\* claimed; the date column is YYYY-MM-DD for a year of four digits and
\* empty without a date.
C14_AllButEarlyYears ==
  output_file # None =>
    /\ Len(RowsWritten) = Len(exported) + 1
    /\ RowsWritten[1] = HEADERS
    /\ \A i \in DOMAIN exported :
         /\ RowButDateIs(RowsWritten[i + 1], exported[i])
         /\ exported[i].publication_date = None => RowsWritten[i + 1][3] = << >>
         /\ /\ exported[i].publication_date # None
            /\ c_library_pads_year \/ exported[i].publication_date[1].year >= 1000
            => RowsWritten[i + 1][3] = IsoDate(exported[i].publication_date[1])

(***************************************************************************)
(* What the claims say about a run of the command.                         *)
(***************************************************************************)
\* How the search_papers call of the command ended.
Search == result[1][1]

RetrievalRaised == Search.raised # ""

SearchFoundNothing == ~RetrievalRaised /\ Search.papers[1] = << >>

\* The papers of the search that the filter keeps.
KeptPositions ==
  { i \in DOMAIN Search.papers[1] : has_pharma_affiliation(Search.papers[1][i]) }

FilterKeepsNothing == ~RetrievalRaised /\ KeptPositions = {}

FileCannotBeOpened == file # None /\ ~file_opens

\* The identifier and the title of the papers the filter keeps, in order.
RECURSIVE KeptIdAndTitle(_)
KeptIdAndTitle(i) ==
  IF i > Len(Search.papers[1]) THEN << >>
  ELSE (IF i \in KeptPositions
        THEN << <<Search.papers[1][i].pubmed_id, Search.papers[1][i].title>> >>
        ELSE << >>) \o KeptIdAndTitle(i + 1)

\* The first two columns of the rows of a CSV text after its header row.
IdAndTitleWritten(text) ==
  [ i \in 1..(Len(ReadCsv(text, 1, << >>, << >>)) - 1) |->
      SubSeq(ReadCsv(text, 1, << >>, << >>)[i + 1], 1, 2) ]

\* Nothing of the results was written.
NoRowsWritten == named_file = None /\ stdout = << >>

\* The filtered papers were written, to the file or to standard output (a
\* newline after the CSV text).
FilteredPapersWritten ==
  IF file # None
  THEN /\ named_file # None
       /\ ReadCsv(named_file[1], 1, << >>, << >>)[1] = HEADERS
       /\ IdAndTitleWritten(named_file[1]) = KeptIdAndTitle(1)
  ELSE /\ named_file = None
       /\ stdout # << >>
       /\ stdout[Len(stdout)] = "\n"
       /\ ReadCsv(SubSeq(stdout, 1, Len(stdout) - 1), 1, << >>, << >>)[1] = HEADERS
       /\ IdAndTitleWritten(SubSeq(stdout, 1, Len(stdout) - 1)) = KeptIdAndTitle(1)

\* C15 as claimed: the command exits non-zero without writing result rows
\* when the search returns no papers, the filter keeps none or retrieval
\* raises; in every other case it writes the filtered papers and does not
\* exit non-zero.
C15_AsClaimed ==
  exit_code # None =>
    IF RetrievalRaised \/ SearchFoundNothing \/ FilterKeepsNothing
    THEN exit_code # Some(0) /\ NoRowsWritten
    ELSE exit_code = Some(0) /\ FilteredPapersWritten

\* C15: the command ends when its search_papers call ends; it exits
\* non-zero without writing result rows when the search returns no papers,
\* the filter keeps none, retrieval raises, or the named file cannot be
\* opened for writing; in every other case it writes the filtered papers to
\* the named file or to standard output and exits with status 0.
C15_ExitStatus ==
  /\ exit_code # None <=> pc[1] = "done"
  /\ exit_code # None =>
       IF RetrievalRaised \/ SearchFoundNothing \/ FilterKeepsNothing \/ FileCannotBeOpened
       THEN exit_code # Some(0) /\ NoRowsWritten
       ELSE exit_code = Some(0) /\ FilteredPapersWritten

\* C15 happens: the search returned two papers, the filter kept one of them,
\* and the command wrote it to the named file and exited with status 0.
C15_Witness ==
  /\ exit_code = Some(0)
  /\ Len(Search.papers[1]) = 2
  /\ Cardinality(KeptPositions) = 1
  /\ file # None
  /\ named_file # None
  /\ Len(IdAndTitleWritten(named_file[1])) = 1

\* C15 happens: the filter kept a paper and the named file could not be
\* opened.
C15_WitnessCannotOpen ==
  /\ exit_code = Some(1)
  /\ ~RetrievalRaised
  /\ KeptPositions # {}
  /\ FileCannotBeOpened
  /\ NoRowsWritten

\* C15 happens: the search returned papers and the filter kept none.
C15_WitnessNoneKept ==
  /\ exit_code = Some(1)
  /\ ~SearchFoundNothing
  /\ FilterKeepsNothing
  /\ NoRowsWritten

\* C15 happens: retrieval raised an error that is no PubMedAPIError.
C15_WitnessRaised ==
  /\ exit_code = Some(1)
  /\ RetrievalRaised
  /\ Search.raised # "PubMedAPIError"
  /\ NoRowsWritten

\* C15 happens: the filtered papers went to standard output.
C15_WitnessStdout ==
  /\ exit_code = Some(0)
  /\ file = None
  /\ FilteredPapersWritten

(***************************************************************************)
(* SpecArticles: one call of search_papers whose detail fetch receives a   *)
(* document of one article.  The article is one of the date articles (a    *)
(* publication date of any year, month and day of the pools, each absent,  *)
(* empty or given), one of the articles with a journal or a date element   *)
(* that is missing or empty, one of the author articles (at most           *)
(* MaxEntries author entries of AuthorEntryPool), or one of the articles   *)
(* of the identifier and title shapes.                                     *)
(***************************************************************************)
MaxEntries == 2

\* <tag>text</tag> for each text of a set, and no such element (<< >>)
Elements(tag, texts) == { << >> } \cup { <<Leaf(tag, text)>> : text \in texts }

YearElements ==
  Elements("Year", { << >>, <<"2","0","2","3">>, <<"9","9","9">>, <<"0">>, <<"2","0","x","3">>, <<"9","9","9","9","9","9","9","9","9","9","9">> })

MonthElements ==
  Elements("Month", { << >>, <<"3">>, <<"0","2">>, <<"1","3">>, <<"M","a","r">>, <<"m","a","r">>, <<"S","p","r","i","n","g">> })

DayElements == Elements("Day", { << >>, <<"7">>, <<"3","0">>, <<"3","1">>, <<"x">> })

\* An article with an identifier, a title and these elements of <Article>
ArticleWith(article_kids) ==
  ArticleEl(PMID(<<"7","7">>), <<Leaf("ArticleTitle", <<"T">>)>> \o article_kids)

\* An article whose <Journal> holds these elements
JournalArticle(journal_kids) == ArticleWith(<<Node("Journal", journal_kids)>>)

DateArticles ==
  { JournalArticle(<<PubDate(year \o month \o day)>>) :
      year \in YearElements, month \in MonthElements, day \in DayElements }

\* no <Journal>, <Journal/>, a journal without <JournalIssue>,
\* <JournalIssue/>, <PubDate/> (the date articles hold it too), a date given
\* as <MedlineDate>, and a month with inline markup
UndatedArticles ==
  { ArticleWith(<< >>),
    ArticleWith(<<Leaf("Journal", << >>)>>),
    JournalArticle(<<Leaf("Title", <<"J">>)>>),
    JournalArticle(<<Leaf("JournalIssue", << >>)>>),
    JournalArticle(<<PubDate(<<Leaf("MedlineDate", <<"2","0","2","3"," ","J","a","n","-","F","e","b">>)>>)>>),
    JournalArticle(<<PubDate(<<Leaf("Year", <<"2","0","2","3">>),
                               El("Month", NoAttrs, <<"M","a","r">>, <<Leaf("i", <<"x">>)>>)>>)>>) }

\* <Affiliation> with inline markup: Dept<sup>1</sup> Pfizer Inc.
MarkedUpAffiliation ==
  Node("AffiliationInfo",
       <<El("Affiliation", NoAttrs, <<"D","e","p","t"," ","P","f","i","z","e","r"," ","I","n","c",".">>, <<Leaf("sup", <<"1">>)>>)>>)

AuthorEntryPool ==
  { AuthorEl(<<Leaf("LastName", <<"D","o","e">>), Leaf("ForeName", <<"J","a","n","e">>), Leaf("Initials", <<"J">>)>>),
    AuthorEl(<<Leaf("LastName", <<"R","o","e">>), Leaf("Initials", <<"K">>)>>),
    AuthorEl(<<Leaf("LastName", <<"P","o","e">>), AffiliationInfo(<<"P","f","i","z","e","r"," ","I","n","c",".",","," ","j","@","p",".","c","o","m",".">>)>>),
    AuthorEl(<<Leaf("CollectiveName", <<"T","h","e"," ","G","r","o","u","p">>)>>),
    \* no family name and no collective name
    AuthorEl(<<Leaf("ForeName", <<"A","n","n">>), Leaf("Initials", <<"A">>)>>),
    \* <Author/>
    Leaf("Author", << >>),
    AuthorEl(<<Leaf("LastName", <<"L","e","e">>), MarkedUpAffiliation>>) }

AuthorArticles ==
  { ArticleWith(<<Node("AuthorList", entries)>>) :
      entries \in SeqsUpTo(AuthorEntryPool, MaxEntries) }

\* The identifier with and without attributes, the title as text, with
\* inline markup and as markup alone.
ShapeArticles ==
  { a_complete, a_markup, a_bare_pmid,
    ArticleEl(Leaf("PMID", <<"3","3">>), <<El("ArticleTitle", NoAttrs, <<"T","2">>, <<Leaf("i", <<"x">>)>>)>>),
    ArticleEl(PMID(<<"4","4">>), <<Node("ArticleTitle", <<Leaf("i", <<"x">>)>>)>>) }

Articles == DateArticles \cup UndatedArticles \cup AuthorArticles \cup ShapeArticles

InitArticles ==
  /\ now = StartTime
  /\ Constructed({1})
  /\ calls_left = 1
  /\ ClassifyIdle
  /\ FilterIdle
  /\ LaterIdle

NextArticles ==
  \/ CallSearchPapers(1, 1)
  \/ \E exc \in TransportErrors : EsearchFails(1, exc)
  \/ \E idlist \in IdLists(1) : EsearchResponds(1, 200, FALSE, idlist)
  \/ \E exc \in TransportErrors : EfetchFails(1, exc)
  \/ \E article \in Articles : EfetchResponds(1, 200, Some(PubmedArticleSet(<<article>>)))

SpecArticles == InitArticles /\ [][NextArticles]_vars

(***************************************************************************)
(* Claims about the parsing of one article, read off the fetched document. *)
(***************************************************************************)
\* The detail fetch was answered with a document.
ArticleFetched == pc[1] = "done" /\ fetched[1] # None

\* The article of the fetched document.
FetchedArticle == fetched[1][1].kids[1]

\* search_papers returned one Paper.
PaperReturned == Search.raised = "" /\ Len(Search.papers[1]) = 1

ThePaper == Search.papers[1][1]

\* The child elements of one tag, in document order
Children(el, tag) == SelectSeq(el.kids, LAMBDA kid : kid.tag = tag)

\* The elements at the end of a path of tags below the elements given
RECURSIVE Below(_, _)
Below(els, path) ==
  IF path = << >> \/ els = << >> THEN els
  ELSE Below(Children(els[1], path[1]), Tail(path))

ArticleChildren(tag) == Below(<<FetchedArticle>>, <<"MedlineCitation", "Article", tag>>)

\* The <PubDate> elements of the article
PubDates == Below(ArticleChildren("Journal"), <<"JournalIssue", "PubDate">>)

\* An element that holds text alone, or nothing
PlainText(el) == el.kids = << >> /\ DOMAIN el.attrs = {}

\* The text of the field of a date: None when there is no such element
DateField(tag) ==
  LET given == Children(PubDates[1], tag)
  IN  IF given = << >> THEN None ELSE Some(given[1].text)

\* The article has a <PubDate> whose year, month and day are each absent or
\* an element of text.
HasDateFields ==
  /\ ArticleFetched
  /\ PubDates # << >>
  /\ \A i \in DOMAIN PubDates[1].kids :
       /\ PubDates[1].kids[i].tag \in {"Year", "Month", "Day"}
       /\ PlainText(PubDates[1].kids[i])

IsNumeric(text) ==
  /\ text # << >>
  /\ Len(text) <= 9
  /\ \A i \in DOMAIN text : \E k \in DOMAIN Digits : Digits[k] = text[i]

\* The number a numeric text writes
RECURSIVE NumberOf(_)
NumberOf(text) ==
  IF text = << >> THEN 0
  ELSE 10 * NumberOf(SubSeq(text, 1, Len(text) - 1))
       + (CHOOSE k \in DOMAIN Digits : Digits[k] = text[Len(text)]) - 1

Abbreviations ==
  << <<"J","a","n">>, <<"F","e","b">>, <<"M","a","r">>, <<"A","p","r">>, <<"M","a","y">>, <<"J","u","n">>,
     <<"J","u","l">>, <<"A","u","g">>, <<"S","e","p">>, <<"O","c","t">>, <<"N","o","v">>, <<"D","e","c">> >>

IsAbbreviation(text) == \E k \in DOMAIN Abbreviations : Abbreviations[k] = text

\* The days of a month of the Gregorian calendar
LastDay(y, m) ==
  IF m \in {4, 6, 9, 11} THEN 30
  ELSE IF m # 2 THEN 31
  ELSE IF y % 400 = 0 \/ (y % 4 = 0 /\ y % 100 # 0) THEN 29 ELSE 28

IsCalendarDate(y, m, d) == y \in 1..9999 /\ m \in 1..12 /\ d \in 1..LastDay(y, m)

\* The month of a claim: the number, the number of the abbreviation, 1 when
\* the month is absent; `otherwise` for any other month.
MonthAs(field, otherwise) ==
  IF field = None THEN 1
  ELSE IF IsAbbreviation(field[1])
  THEN CHOOSE k \in DOMAIN Abbreviations : Abbreviations[k] = field[1]
  ELSE IF IsNumeric(field[1]) THEN NumberOf(field[1])
  ELSE otherwise

\* The day: the number, 1 when absent; 0 (no day) for any other day.
DayAs(field) ==
  IF field = None THEN 1
  ELSE IF IsNumeric(field[1]) THEN NumberOf(field[1])
  ELSE 0

\* The date of the paper is the calendar date (y, m, d), and no date when
\* there is no such calendar date.
DateIs(y, m, d) ==
  IF IsCalendarDate(y, m, d)
  THEN ThePaper.publication_date = Some([year |-> y, month |-> m, day |-> d])
  ELSE ThePaper.publication_date = None

\* The date of the paper follows the fields, an unparseable month counting
\* as `otherwise`.
DateFollowsFields(year, month, day, otherwise) ==
  IF year \in {None, Some(<< >>)} THEN ThePaper.publication_date = None
  ELSE IF ~IsNumeric(year[1]) THEN ThePaper.publication_date = None
  ELSE DateIs(NumberOf(year[1]), MonthAs(month, otherwise), DayAs(day))

\* C17 as the claim states it: of an article with date fields that gives a
\* Paper, the paper has no date when the year is absent, and else its date is
\* (year, month, day) with the numeric month, the number of a 3-letter month
\* abbreviation, or 1 when the month is absent or unparseable, and the day 1
\* when absent.
C17_AsClaimed ==
  (HasDateFields /\ PaperReturned) =>
    DateFollowsFields(DateField("Year"), DateField("Month"), DateField("Day"), 1)

\* C17, amended: as claimed, but the month is 1 only when it is absent; a
\* month that is neither a number nor one of the twelve abbreviations
\* Jan..Dec, like a year or a day that is no number and like numbers that
\* make no calendar date, leaves the paper without a date.
C17_DateFromFields ==
  (HasDateFields /\ PaperReturned) =>
    DateFollowsFields(DateField("Year"), DateField("Month"), DateField("Day"), 0)

\* C17: an article of the year 2023, month Mar and no day gave a paper of
\* 2023-03-01.
C17_Witness ==
  /\ HasDateFields
  /\ PaperReturned
  /\ DateField("Year") = Some(<<"2","0","2","3">>)
  /\ DateField("Month") = Some(<<"M","a","r">>)
  /\ DateField("Day") = None
  /\ ThePaper.publication_date = Some([year |-> 2023, month |-> 3, day |-> 1])

\* C17: an article of the year 2023 and the month Spring gave a paper
\* without a date.
C17_WitnessUnparseable ==
  /\ HasDateFields
  /\ PaperReturned
  /\ DateField("Year") = Some(<<"2","0","2","3">>)
  /\ DateField("Month") = Some(<<"S","p","r","i","n","g">>)
  /\ ThePaper.publication_date = None

\* The year, month and day of the article make a calendar date, an absent
\* month or day counting as 1.
FieldsMakeDate ==
  /\ HasDateFields
  /\ DateField("Year") # None
  /\ IsNumeric(DateField("Year")[1])
  /\ IsCalendarDate(NumberOf(DateField("Year")[1]), MonthAs(DateField("Month"), 0),
                    DayAs(DateField("Day")))

\* An article with an identifier and a title whose date is absent or
\* malformed: no date element, an empty one, or fields that make no date.
DateAbsentOrMalformed ==
  /\ ArticleFetched
  /\ FetchedArticle \in DateArticles \cup UndatedArticles
  /\ ~FieldsMakeDate

\* C18 as the claim states it: an article whose date fields are absent or
\* malformed in any way is returned by search_papers as a Paper without a
\* publication date; search_papers raises nothing and the article is not
\* dropped.
C18_AsClaimed ==
  DateAbsentOrMalformed =>
    /\ Search.raised = ""
    /\ PaperReturned
    /\ ThePaper.publication_date = None

\* C18, the part that holds: a bad date never makes search_papers raise, and
\* a Paper that is returned for such an article has no date.
C18_NeverRaises ==
  DateAbsentOrMalformed =>
    /\ Search.raised = ""
    /\ PaperReturned => ThePaper.publication_date = None

\* C18: an article with an identifier, a title and an empty date element
\* was fetched, and search_papers returned no paper.
C18_Dropped ==
  /\ ArticleFetched
  /\ FetchedArticle = JournalArticle(<<PubDate(<< >>)>>)
  /\ Search.raised = ""
  /\ Search.papers[1] = << >>

\* The author entries of the article, in document order
AuthorEntries == Below(ArticleChildren("AuthorList"), <<"Author">>)

\* The text of a field of an author entry, empty when there is none
EntryField(entry, tag) ==
  LET given == Children(entry, tag)
  IN  IF given = << >> THEN << >> ELSE given[1].text

FamilyName(entry, family) ==
  IF EntryField(entry, "ForeName") # << >>
  THEN EntryField(entry, "ForeName") \o <<" ">> \o family
  ELSE IF EntryField(entry, "Initials") # << >>
  THEN EntryField(entry, "Initials") \o <<" ">> \o family
  ELSE family

\* The name C19 derives from an entry: empty when none is derivable
DerivedName(entry) ==
  IF EntryField(entry, "LastName") # << >>
  THEN FamilyName(entry, EntryField(entry, "LastName"))
  ELSE EntryField(entry, "CollectiveName")

HasDerivableName(entry) == DerivedName(entry) # << >>

\* The affiliation of the entry holds inline markup.
HasMarkedUpAffiliation(entry) ==
  \E i \in DOMAIN Below(<<entry>>, <<"AffiliationInfo", "Affiliation">>) :
    ~PlainText(Below(<<entry>>, <<"AffiliationInfo", "Affiliation">>)[i])

NamesOfEntries(entries) == [ i \in DOMAIN entries |-> DerivedName(entries[i]) ]

NamesOfAuthors(authors) == [ i \in DOMAIN authors |-> authors[i].name ]

AuthorArticleFetched == ArticleFetched /\ FetchedArticle \in AuthorArticles

\* C19 as the claim states it: the article of an author list gives a Paper
\* whose authors are, in document order, the entries with a derivable name,
\* each named 'given family', else 'initials family', else by the family
\* name alone, else by the collective name; entries without a derivable name
\* are skipped and a single entry is treated like a list of one.
C19_AsClaimed ==
  AuthorArticleFetched =>
    /\ PaperReturned
    /\ NamesOfAuthors(ThePaper.authors)
         = NamesOfEntries(SelectSeq(AuthorEntries, HasDerivableName))

\* C19, the part that holds: when a Paper is returned, its authors are, in
\* document order, the entries with a derivable name whose affiliation holds
\* no inline markup, named as the claim says.
C19_NamesOfPlainEntries ==
  (AuthorArticleFetched /\ PaperReturned) =>
    NamesOfAuthors(ThePaper.authors)
      = NamesOfEntries(SelectSeq(AuthorEntries,
          LAMBDA entry : HasDerivableName(entry) /\ ~HasMarkedUpAffiliation(entry)))

\* C19: an entry with a family name whose affiliation holds inline markup
\* was fetched, and the Paper returned has no author of that name.
C19_EntryLost ==
  /\ AuthorArticleFetched
  /\ PaperReturned
  /\ \E i \in DOMAIN AuthorEntries :
       /\ HasDerivableName(AuthorEntries[i])
       /\ \A k \in DOMAIN ThePaper.authors :
            ThePaper.authors[k].name # DerivedName(AuthorEntries[i])

\* C19: the only author entry of the article is empty, and search_papers
\* returned no paper.
C19_ArticleLost ==
  /\ AuthorArticleFetched
  /\ AuthorEntries = <<Leaf("Author", << >>)>>
  /\ Search.raised = ""
  /\ Search.papers[1] = << >>

\* The <PMID> and the <ArticleTitle> of the article
IdentifierElement == Below(<<FetchedArticle>>, <<"MedlineCitation", "PMID">>)[1]

TitleElement == ArticleChildren("ArticleTitle")[1]

\* An article of the identifier and title shapes, each with a text.
ShapeArticleFetched ==
  /\ ArticleFetched
  /\ FetchedArticle \in ShapeArticles
  /\ IdentifierElement.text # << >>
  /\ TitleElement.text # << >>

\* The Paper of the article carries the texts of its identifier and title.
PaperCarriesTexts ==
  /\ PaperReturned
  /\ ThePaper.pubmed_id = IdentifierElement.text
  /\ ThePaper.title = TitleElement.text

\* C20 as the claim states it: whether the identifier and the title are
\* bare strings or structures with a text payload, the Paper carries the
\* string; an article whose identifier is a bare string yields a Paper with
\* that identifier.
C20_AsClaimed == ShapeArticleFetched => PaperCarriesTexts

\* C20, the part that holds: with an identifier that is a structure, the
\* title is accepted in both shapes.
C20_TitleInBothShapes ==
  (ShapeArticleFetched /\ ~PlainText(IdentifierElement)) => PaperCarriesTexts

\* C20: an article whose identifier is a bare string was fetched, and
\* search_papers returned no paper.
C20_BareIdentifierLost ==
  /\ ShapeArticleFetched
  /\ PlainText(IdentifierElement)
  /\ Search.raised = ""
  /\ Search.papers[1] = << >>

\* C20: a title with inline markup gave a Paper with the title's text.
C20_StructuredTitleKept ==
  /\ ShapeArticleFetched
  /\ ~PlainText(TitleElement)
  /\ PaperCarriesTexts

(***************************************************************************)
(* SpecRetrieved: one call of search_papers, and a caller that hands the   *)
(* papers it returned to the Record Model's query for the corresponding    *)
(* author's email, to get_paper_statistics and to write_papers_to_csv.     *)
(* The document fetched holds one article of AuthorArticles (author        *)
(* entries with and without an email address in the affiliation) or the    *)
(* complete article, or two articles of PairedArticles.                    *)
(***************************************************************************)
PairedArticles ==
  { a_complete,
    ArticleWith(<<Node("AuthorList",
      <<AuthorEl(<<Leaf("LastName", <<"P","o","e">>), AffiliationInfo(<<"P","f","i","z","e","r"," ","I","n","c",".",","," ","j","@","p",".","c","o","m",".">>)>>)>>)>>),
    ArticleWith(<<Node("AuthorList",
      <<AuthorEl(<<Leaf("LastName", <<"R","o","e">>), Leaf("Initials", <<"K">>)>>)>>)>>) }

RetrievedDocuments ==
  { PubmedArticleSet(<<article>>) : article \in AuthorArticles \cup {a_complete} }
  \cup { PubmedArticleSet(<<first, second>>) : first \in PairedArticles, second \in PairedArticles }

\* search_papers returned: the papers the caller holds
Retrieved == result[1][1].papers[1]

HasRetrieved == pc[1] = "done" /\ result[1] # None /\ result[1][1].raised = ""

\* paper.get_corresponding_author_email() of the i-th retrieved paper
EmailOfRetrieved(i) ==
  /\ HasRetrieved
  /\ i \in DOMAIN Retrieved
  /\ corresponding_author_email = None
  /\ queried' = Retrieved[i]
  /\ corresponding_author_email' = Some(get_corresponding_author_email(Retrieved[i]))
  /\ UNCHANGED <<company_affiliations, kept>>
  /\ UNCHANGED <<classifyVars, filterVars, clientVars, recordVars, exportVars, mainVars>>

\* paper_filter.get_paper_statistics(all_papers)
StatisticsOfRetrieved ==
  /\ HasRetrieved
  /\ statistics = None
  /\ statistics' = Some(statistics_of_objects(Retrieved))
  /\ UNCHANGED <<papers, filtered_papers, kept_statistics>>
  /\ UNCHANGED <<classifyVars, clientVars, laterVars, mainVars>>

\* csv_writer.write_papers_to_csv(all_papers, f)
ExportRetrieved ==
  /\ HasRetrieved
  /\ output_file = None
  /\ exported' = Retrieved
  /\ output_file' = Some(write_papers_to_csv(Retrieved, c_library_pads_year))
  /\ UNCHANGED c_library_pads_year
  /\ UNCHANGED <<classifyVars, filterVars, clientVars, recordVars, queryVars, mainVars>>

InitRetrieved ==
  /\ now = StartTime
  /\ Constructed({1})
  /\ calls_left = 1
  /\ ClassifyIdle
  /\ FilterIdle
  /\ LaterIdle

NextRetrieved ==
  \/ CallSearchPapers(1, MaxLimit)
  \/ \E exc \in TransportErrors : EsearchFails(1, exc)
  \/ \E idlist \in IdLists(1) : EsearchResponds(1, 200, FALSE, idlist)
  \/ \E exc \in TransportErrors : EfetchFails(1, exc)
  \/ \E document \in RetrievedDocuments : EfetchResponds(1, 200, Some(document))
  \/ \E i \in 1..MaxArticles : EmailOfRetrieved(i)
  \/ StatisticsOfRetrieved
  \/ ExportRetrieved

SpecRetrieved == InitRetrieved /\ [][NextRetrieved]_vars

\* An author of a retrieved paper has an e-mail address.
RetrievedWithEmail ==
  \E i \in DOMAIN Retrieved : \E k \in DOMAIN Retrieved[i].authors :
    Retrieved[i].authors[k].email # None

\* The last column of every row written after the header row is empty.
EmailColumnEmpty ==
  \A r \in DOMAIN RowsWritten : r > 1 => RowsWritten[r][Len(HEADERS)] = << >>

\* C21: every author of every Paper that search_papers returns has
\* is_corresponding false; get_corresponding_author_email of a retrieved
\* paper is none, get_paper_statistics of the retrieved papers counts 0
\* papers_with_corresponding_mails, and the written file holds one row per
\* retrieved paper whose Corresponding Author Email column is empty.
C21_NeverCorresponding ==
  HasRetrieved =>
    /\ \A i \in DOMAIN Retrieved : \A k \in DOMAIN Retrieved[i].authors :
         Retrieved[i].authors[k].is_corresponding = FALSE
    /\ corresponding_author_email # None => corresponding_author_email[1] = None
    /\ statistics # None => statistics[1].papers_with_corresponding_mails = 0
    /\ output_file # None =>
         /\ Len(RowsWritten) = Len(Retrieved) + 1
         /\ EmailColumnEmpty

\* C21 happens: two papers were retrieved, an author of one has an e-mail
\* address, and the query, the statistics and the export were all applied
\* to them.
C21_Witness ==
  /\ HasRetrieved
  /\ Len(Retrieved) = 2
  /\ RetrievedWithEmail
  /\ corresponding_author_email = Some(None)
  /\ \E k \in DOMAIN queried.authors : queried.authors[k].email # None
  /\ statistics # None
  /\ statistics[1].total_papers = 2
  /\ statistics[1].papers_with_corresponding_mails = 0
  /\ output_file # None
  /\ Len(RowsWritten) = 3
  /\ EmailColumnEmpty

(***************************************************************************)
(* SpecKept: the Filter/Aggregator applied to a list of at most MaxPapers  *)
(* papers, and get_paper_statistics applied to the list and to what the    *)
(* filter kept of it.                                                      *)
(***************************************************************************)
\* paper_filter.get_paper_statistics(filtered_papers)
CallGetPaperStatisticsOfKept ==
  /\ filtered_papers # None
  /\ kept_statistics = None
  /\ kept_statistics' = Some(get_paper_statistics(filtered_papers[1]))
  /\ UNCHANGED <<papers, filtered_papers, statistics, classifyVars, clientVars, laterVars, mainVars>>

NextKept ==
  \/ CallFilterPapers
  \/ CallGetPaperStatistics
  \/ CallGetPaperStatisticsOfKept

SpecKept == InitFilter /\ [][NextKept]_vars

\* The papers the filter kept, as objects
KeptObjects == Objects(filtered_papers[1])

\* C22: every paper that filter_papers_with_pharma_affiliations keeps has a
\* non-empty get_non_academic_authors and a non-empty
\* get_company_affiliations; get_paper_statistics of the filter's output
\* gives papers_with_pharma_affiliations equal to total_papers, and the
\* number of kept papers is at most papers_with_pharma_affiliations of the
\* statistics of the input.
C22_KeptHaveNonAcademicAuthors ==
  filtered_papers # None =>
    /\ \A i \in DOMAIN KeptObjects :
         /\ get_non_academic_authors(KeptObjects[i]) # << >>
         /\ get_company_affiliations(KeptObjects[i]) # << >>
    /\ kept_statistics # None =>
         /\ kept_statistics[1].total_papers = Len(filtered_papers[1])
         /\ kept_statistics[1].papers_with_pharma_affiliations = kept_statistics[1].total_papers
    /\ statistics # None =>
         Len(filtered_papers[1]) <= statistics[1].papers_with_pharma_affiliations

\* C22 happens: of a list of three papers the filter kept one and dropped
\* two, one of the dropped with a non-academic author, and the statistics of
\* the input and of the output were taken.
C22_Witness ==
  /\ filtered_papers # None
  /\ Len(papers) = 3
  /\ Len(filtered_papers[1]) = 1
  /\ statistics # None
  /\ statistics[1].papers_with_pharma_affiliations = 2
  /\ kept_statistics # None
  /\ kept_statistics[1].total_papers = 1
  /\ kept_statistics[1].papers_with_pharma_affiliations = 1

\* The places of the trace where the ID search of a client was answered
\* without a transport failure by a body that carries an error field.
ErrorAnswers ==
  { i \in DOMAIN trace :
      /\ trace[i].event = "response"
      /\ trace[i].url = "esearch.fcgi"
      /\ Success(trace[i].answer.status)
      /\ trace[i].answer.error }

\* C23: when the ID search is answered without a transport failure and the
\* body carries an error field, search_papers raises PubMedAPIError, returns
\* no papers and sends no detail fetch.
C23_ErrorFieldRaises ==
  \A i \in ErrorAnswers :
    /\ pc[trace[i].client] = "done"
    /\ result[trace[i].client] # None
    /\ result[trace[i].client][1].raised = "PubMedAPIError"
    /\ result[trace[i].client][1].papers = None
    /\ RequestsOf(trace[i].client, "efetch.fcgi") = {}
    /\ fetched[trace[i].client] = None

\* C23 happens: the ID search was answered with status 200 by a body that
\* carries both an error field and identifiers, and the call raised.
C23_Witness ==
  \E i \in ErrorAnswers :
    /\ trace[i].answer.status = 200
    /\ trace[i].answer.idlist # << >>
    /\ result[trace[i].client] # None
    /\ result[trace[i].client][1].raised = "PubMedAPIError"
    /\ RequestsOf(trace[i].client, "efetch.fcgi") = {}

=============================================================================
